---- MODULE Spec2Model ----
(***************************************************************************)
(* Model of the mini-inject dependency-injection container (index.cjs):    *)
(* resolveKey, Token, DILiteral, DIProxyBuilder and the DI class with its  *)
(* Binding Table (#bindings), Instance Cache (#container) and sub-module   *)
(* list (#subModules).                                                     *)
(*                                                                         *)
(* JavaScript values are records tagged by the field t, injectable         *)
(* identifiers are records tagged by the field kind, and the outcome of a  *)
(* call is a record [ok, v]: a normal return of v, or a throw of the error *)
(* v.  Object identity is the field id, drawn from the counter nextId.     *)
(***************************************************************************)
EXTENDS Integers, Sequences, FiniteSets, TLC

\* ---------------------------------------------------------------- bounds
MaxInst == 3     \* objects (instances and proxies) allocated in one behaviour
MaxDepth == 12   \* call depth at which the engine's stack is exhausted

\* ---------------------------------------------------------------- values
Undefined == [t |-> "undefined"]
Null == [t |-> "null"]
Lit5 == [t |-> "number", n |-> 5]
Lit10 == [t |-> "number", n |-> 10]
NoEntry == [t |-> "noentry"]        \* Map.has(key) is false
NoBinding == [t |-> "nobinding"]    \* Map.get(key) is undefined
None == [t |-> "none"]              \* history variable not set

Return(v) == [ok |-> TRUE, v |-> v]
Throw(kind, message) ==
    [ok |-> FALSE, v |-> [t |-> "error", kind |-> kind, message |-> message]]

\* ----------------------------------------------------------- identifiers
ClsA == [kind |-> "class", name |-> "A", uid |-> 1]
ClsB == [kind |-> "class", name |-> "B", uid |-> 2]
ClsC == [kind |-> "class", name |-> "C", uid |-> 3]
StrA == [kind |-> "string", name |-> "A"]
StrX == [kind |-> "string", name |-> "X"]
StrEmpty == [kind |-> "string", name |-> ""]
SymB == [kind |-> "symbol", name |-> "B", uid |-> 1]
NullId == [kind |-> "null", name |-> "null"]
UndefinedId == [kind |-> "undefined", name |-> "undefined"]

StrKey(s) == [t |-> "str", s |-> s]
SymKey(s) == [t |-> "sym", s |-> s]   \* Symbol.for(s): one symbol per s

\* `${x}`: string conversion inside a template literal
TemplateOfKey(key) ==
    IF key.t = "sym"
    THEN Throw("TypeError", "Cannot convert a Symbol value to a string")
    ELSE Return(key.s)

Falsy(injectable) ==
    \/ injectable.kind \in {"null", "undefined"}
    \/ injectable.kind = "string" /\ injectable.name = ""

\* a token keyed by the name of the type it wraps, not by its description
toSymbolOfValue(token) ==
    Return(SymKey("__DIToken__[[" \o token.value.name \o "]]"))

\* a token keyed by its description as a plain string
toSymbolAsString(token) ==
    LET d == TemplateOfKey(token.description)
    IN  IF d.ok THEN Return(StrKey(d.v)) ELSE d

\* Token.toSymbol
toSymbol(token) ==
    LET d == TemplateOfKey(token.description)
    IN  IF d.ok THEN Return(SymKey("__DIToken__[[" \o d.v \o "]]")) ELSE d

\* Object.prototype.toString-style conversion used by resolveKey line 13
ToStringOf(injectable) ==
    IF injectable.kind = "symbol"
    THEN "Symbol(" \o injectable.name \o ")"
    ELSE injectable.src

\* a class keyed by itself, not by its name
resolveKeyByIdentity(injectable) ==
    IF Falsy(injectable)
    THEN Throw("Error", "Could not resolve injectable name from \""
                        \o injectable.name \o "\"")
    ELSE IF injectable.kind = "string" THEN Return(StrKey(injectable.name))
    ELSE IF injectable.kind = "symbolObject" THEN Return(injectable.key)
    ELSE IF injectable.kind = "token" THEN toSymbol(injectable)
    ELSE IF injectable.kind = "class"
    THEN Return([t |-> "class", s |-> injectable.name, uid |-> injectable.uid])
    ELSE IF injectable.kind = "function" /\ injectable.name # ""
    THEN Return(StrKey(injectable.name))
    ELSE Return(StrKey(ToStringOf(injectable)))

resolveKey(injectable) ==
    IF Falsy(injectable)
    THEN Throw("Error", "Could not resolve injectable name from \""
                        \o injectable.name \o "\"")
    ELSE IF injectable.kind = "string" THEN Return(StrKey(injectable.name))
    ELSE IF injectable.kind = "symbolObject" THEN Return(injectable.key)
    ELSE IF injectable.kind = "token" THEN toSymbol(injectable)
    ELSE IF injectable.kind \in {"class", "function"} /\ injectable.name # ""
    THEN Return(StrKey(injectable.name))
    ELSE Return(StrKey(ToStringOf(injectable)))

\* new Token(injectable, description); description Undefined when omitted
Token(injectable, description) ==
    [kind |-> "token", value |-> injectable,
     description |-> resolveKey(IF description.kind \in {"null", "undefined"}
                                THEN injectable ELSE description).v]

TokA == Token(ClsA, UndefinedId)
TokB == Token(ClsB, UndefinedId)

\* a second class declared with the name A (another module's export)
ClsA2 == [kind |-> "class", name |-> "A", uid |-> 4]
\* a second Symbol('B'), and the string that Symbol('B').toString() gives
SymB2 == [kind |-> "symbol", name |-> "B", uid |-> 2]
StrSymB == [kind |-> "string", name |-> "Symbol(B)"]
\* Symbol.for('__DIToken__[[A]]') passed as a plain identifier
SymTokA == [kind |-> "symbol", name |-> "__DIToken__[[A]]", uid |-> 3]
\* new Token(B, 'A'): the description of the token of A, another type
TokBA == Token(ClsB, StrA)
\* function first(x) { return x }: a plain function, not a class
FnFirst == [kind |-> "function", name |-> "first"]

\* ------------------------------------------------------------ containers
\* P is a parent, S1 and S2 its possible sub-modules, N a possible
\* sub-module of S1 and S2
DIs == {"P", "S1", "S2", "N"}
Rank(di) == CASE di = "P" -> 0 [] di = "S1" -> 1 [] di = "S2" -> 1 [] di = "N" -> 2

AllIds == {ClsA, ClsB, ClsC, StrA, StrX, SymB, TokA, TokB,
           ClsA2, SymB2, StrSymB, SymTokA, TokBA, FnFirst}
Keys == {resolveKey(i).v : i \in AllIds}

VARIABLES
    bindings,    \* DI.#bindings of each container: key -> binding
    container,   \* DI.#container of each container: key -> cached instance
    subModules,  \* DI.#subModules of each container
    nextId,      \* identity of the next object allocated
    proxies,     \* DIProxyBuilder state of every proxy built, by proxy id
    last,        \* the last call made and its outcome
    watch,       \* the container and key whose history got records
    got          \* the value v the last get of the watched key on the
                 \* watched container returned, and whether the key was
                 \* bound there or the container cleared since (stale)

vars == <<bindings, container, subModules, nextId, proxies, last, watch, got>>

\* The state after construction of the containers; the history is kept for
\* one container and one key out of watched
InitWatching(watched) ==
    /\ watch \in watched
    /\ bindings = [di \in DIs |-> [k \in Keys |-> NoBinding]]
    /\ container = [di \in DIs |-> [k \in Keys |-> NoEntry]]
    /\ subModules = [di \in DIs |-> <<>>]
    /\ nextId = 1
    /\ proxies = <<>>
    /\ last = [op |-> "new"]
    /\ got = None

\* ----------------------------------------------------- dependency wrappers
\* DI.literal(value): a DILiteral
literal(value) == [kind |-> "DILiteral", value |-> value]

\* DI.factory(fn): a DIFactory
factory(fn) == [kind |-> "DIFactory", fn |-> fn]

\* the factory function (di) => di.getResolver(injectable)
ResolverOf(injectable) == [kind |-> "getResolver", injectable |-> injectable]

\* the factory function (di) => new Made(di): a new object at every call
MakeObject == [kind |-> "makeObject"]

\* the handle getResolver returns: its get calls di.get(injectable, ...)
Resolver(di, injectable) ==
    [t |-> "resolver", di |-> di, injectable |-> injectable]

\* A construction function written by the caller: (di) => new target(...)
\* with one constructor argument per element of deps, each obtained as the
\* generated function obtains it (a literal as is, an injectable by di.get)
Fn(tag, target, deps) ==
    [kind |-> "fn", tag |-> tag, target |-> target, deps |-> deps]

\* The function bind generates from an array of dependencies
GeneratedFunc(injectable, dependencies) ==
    [kind |-> "generated", target |-> injectable, deps |-> dependencies]

isClass(f) == f.kind = "class"

\* every injectable taken as constructable
ConstructableAlways(injectable) == TRUE

\* injectable?.prototype?.constructor
Constructable(injectable) == injectable.kind \in {"class", "function"}

\* ------------------------------------------------------------ the engine
\* the value of `this`
This(di) == [t |-> "DI", di |-> di]

\* The state a resolution reads and writes: every container's Instance
\* Cache, the allocation counter and the proxies.  The Binding Tables and
\* sub-module lists are not written by get.
State == [container |-> container, nextId |-> nextId, proxies |-> proxies]

Out(st, r) == [st |-> st, r |-> r]

RECURSIVE getBinding(_, _)
getBinding(di, injectable) ==
    LET rk == resolveKey(injectable)
    IN  IF ~rk.ok THEN rk
        ELSE LET binding == bindings[di][rk.v]
                 FirstSub[i \in 1..(Len(subModules[di]) + 1)] ==
                     IF i > Len(subModules[di]) THEN Return(Undefined)
                     ELSE LET subBinding == getBinding(subModules[di][i], injectable)
                          IN  IF ~subBinding.ok THEN subBinding
                              ELSE IF subBinding.v # Undefined THEN subBinding
                              ELSE FirstSub[i + 1]
             IN  IF binding = NoBinding THEN FirstSub[1]
                 ELSE Return([t |-> "binding",
                              isSingleton |-> binding.isSingleton,
                              lateResolve |-> binding.lateResolve,
                              resolveFunction |-> binding.func])

\* has answering for the container's own Binding Table only
HasLocalOnly(di, injectable) ==
    LET rk == resolveKey(injectable)
    IN  IF rk.ok THEN Return(bindings[di][rk.v] # NoBinding) ELSE rk

\* DI.has(injectable): Boolean(this.getBinding(injectable))
has(di, injectable) ==
    LET b == getBinding(di, injectable)
    IN  IF b.ok THEN Return(b.v # Undefined) ELSE b

\* a proxy built as if its getter had already been called
NewProxyEager(st, di, binding) ==
    [st EXCEPT !.nextId = st.nextId + 1,
               !.proxies = (st.nextId :> [di |-> di, func |-> binding.func,
                                          hasInstance |-> TRUE,
                                          instance |-> Undefined]) @@ st.proxies]

\* DI.#proxy and DIProxyBuilder: a proxy that has not yet called its getter
NewProxy(st, di, binding) ==
    [st EXCEPT !.nextId = st.nextId + 1,
               !.proxies = (st.nextId :> [di |-> di, func |-> binding.func,
                                          hasInstance |-> FALSE,
                                          instance |-> Undefined]) @@ st.proxies]

\* the unresolved lookup at the end of get's first branch (lines 168-170)
Miss(key, args) ==
    LET isFallbackProvided == Len(args) > 1
        text == TemplateOfKey(key)
    IN  IF isFallbackProvided THEN Return(args[2])
        ELSE IF ~text.ok THEN text
        ELSE Throw("Error", "No binding for injectable \"" \o text.v \o "\"")

\* what first.apply(first, resolved) returns: its first argument
Applied(resolvedDependencies) ==
    IF Len(resolvedDependencies) > 0 THEN resolvedDependencies[1] ELSE Undefined

\* the construction with the resolved dependencies dropped
ConstructWithoutArguments(st, func, resolvedDependencies) ==
    IF ~isClass(func.target) THEN Out(st, Return(Undefined))
    ELSE Out([st EXCEPT !.nextId = st.nextId + 1],
             Return([t |-> "object", id |-> st.nextId,
                     class |-> func.target.name, how |-> "new",
                     by |-> func, args |-> <<>>]))

\* injectable.apply(injectable, resolvedDependencies) of a plain function /
\* new injectable(...resolvedDependencies) of a class (lines 216-219)
Construct(st, func, resolvedDependencies) ==
    IF ~isClass(func.target) THEN Out(st, Return(Applied(resolvedDependencies)))
    ELSE Out([st EXCEPT !.nextId = st.nextId + 1],
             Return([t |-> "object", id |-> st.nextId,
                     class |-> func.target.name, how |-> "new",
                     by |-> func, args |-> resolvedDependencies]))

\* binding.isSingleton as get tests it (line 171)
IsSingletonAlways(binding) == TRUE
IsSingletonWhenLate(binding) == binding.isSingleton \/ binding.lateResolve
IsSingleton(binding) == binding.isSingleton

\* binding.lateResolve as get tests it (line 174)
IsLateResolveNever(binding) == FALSE
IsLateResolveAlways(binding) == TRUE
IsLateResolve(binding) == binding.lateResolve

\* this.#container.has(key) (line 173)
ContainerHasNever(st, di, key) == FALSE
ContainerHas(st, di, key) == st.container[di][key] # NoEntry

\* this.#container.set(key, value) (lines 175, 178)
ContainerSetInAll(st, di, key, value) ==
    [st EXCEPT !.container = [d \in DIs |-> [@[d] EXCEPT ![key] = value]]]
ContainerSet(st, di, key, value) == [st EXCEPT !.container[di][key] = value]

\* this.#container.get(key) (line 181)
ContainerGet(st, di, key) ==
    IF st.container[di][key] = NoEntry THEN Undefined
    ELSE st.container[di][key]

RECURSIVE get(_, _, _, _)
RECURSIVE CallFunc(_, _, _, _)
RECURSIVE ResolveDependencies(_, _, _, _, _, _)
RECURSIVE getAll(_, _, _, _, _)

\* getResolver resolving the injectable at once
getResolverEager(st, di, injectable, depth) ==
    Out(get(st, di, <<injectable>>, depth + 1).st,
        Return(Resolver(di, injectable)))

\* DI.getResolver(injectable)
getResolver(st, di, injectable, depth) ==
    Out(st, Return(Resolver(di, injectable)))

\* what the factory function (di) => new Made(di) returns
Made(st, di, fn) ==
    Out([st EXCEPT !.nextId = st.nextId + 1],
        Return([t |-> "object", id |-> st.nextId, class |-> "Made",
                how |-> "new", by |-> fn, args |-> <<This(di)>>]))

\* the factory function called twice, the second result passed on
CallFactoryTwice(st, di, fn, depth) ==
    IF fn.kind = "getResolver" THEN getResolver(st, di, fn.injectable, depth)
    ELSE Made(Made(st, di, fn).st, di, fn)

\* d.get(di) of a DIFactory: this.#fn(di) (line 91)
CallFactory(st, di, fn, depth) ==
    IF fn.kind = "getResolver" THEN getResolver(st, di, fn.injectable, depth)
    ELSE Made(st, di, fn)

\* dependencies.map(...) with a dependency that fails to resolve passed as
\* undefined instead of ending the call
ResolveDependenciesLenient(st, di, deps, i, acc, depth) ==
    LET Walk[j \in 1..(Len(deps) + 1)] ==
            IF j = 1 THEN [st |-> st, acc |-> acc]
            ELSE LET before == Walk[j - 1]
                     d == deps[j - 1]
                     one == IF d.kind = "DILiteral"
                            THEN Out(before.st, Return(d.value))
                            ELSE get(before.st, di, <<d>>, depth + 1)
                 IN  [st |-> one.st,
                      acc |-> Append(before.acc,
                                     IF one.r.ok THEN one.r.v ELSE Undefined)]
    IN  Out(Walk[Len(deps) + 1].st, Return(Walk[Len(deps) + 1].acc))

\* dependencies.map(...) with every dependency looked up in the parent P
\* instead of the container the function was called with
ResolveDependenciesFromParent(st, di, deps, i, acc, depth) ==
    LET Walk[j \in 1..(Len(deps) + 1)] ==
            IF j = 1 THEN [st |-> st, r |-> Return(acc)]
            ELSE LET before == Walk[j - 1]
                     d == deps[j - 1]
                     one == IF d.kind = "DILiteral"
                            THEN Out(before.st, Return(d.value))
                            ELSE get(before.st, "P", <<d>>, depth + 1)
                 IN  IF ~before.r.ok THEN before
                     ELSE IF ~one.r.ok THEN one
                     ELSE [st |-> one.st, r |-> Return(Append(before.r.v, one.r.v))]
    IN  Walk[Len(deps) + 1]

\* dependencies.map(...) of the generated function, element i onwards
ResolveDependencies(st, di, deps, i, acc, depth) ==
    IF i > Len(deps) THEN Out(st, Return(acc))
    ELSE LET d == deps[i]
             one == IF d.kind = "DILiteral" THEN Out(st, Return(d.value))
                    ELSE IF d.kind = "DIFactory"
                    THEN CallFactory(st, di, d.fn, depth + 1)
                    ELSE get(st, di, <<d>>, depth + 1)
         IN  IF ~one.r.ok THEN one
             ELSE ResolveDependencies(one.st, di, deps, i + 1,
                                      Append(acc, one.r.v), depth)

\* binding.func(di) returning undefined where the function throws
CallFuncSwallowing(st, di, func, depth) ==
    IF depth > MaxDepth THEN Out(st, Return(Undefined))
    ELSE LET resolved == ResolveDependencies(st, di, func.deps, 1, <<>>, depth)
         IN  IF ~resolved.r.ok THEN Out(st, Return(Undefined))
             ELSE Construct(resolved.st, func, resolved.r.v)

\* binding.func(di)
CallFunc(st, di, func, depth) ==
    IF depth > MaxDepth
    THEN Out(st, Throw("RangeError", "Maximum call stack size exceeded"))
    ELSE LET resolved == ResolveDependencies(st, di, func.deps, 1, <<>>, depth)
         IN  IF ~resolved.r.ok THEN resolved
             ELSE Construct(resolved.st, func, resolved.r.v)

\* the loop over #subModules left out: an unbound key misses at once
GetFromSubModulesSkipped(st, di, key, args, i, depth) == Out(st, Miss(key, args))

\* the loop over #subModules run from the last sub-module to the first
GetFromSubModulesLastFirst(st, di, key, args, i, depth) ==
    LET Scan[j \in 0..Len(subModules[di])] ==
            IF j = 0 THEN Out(st, Miss(key, args))
            ELSE LET h == has(subModules[di][j], args[1])
                 IN  IF ~h.ok THEN Out(st, h)
                     ELSE IF h.v
                     THEN get(st, subModules[di][j], <<args[1]>>, depth + 1)
                     ELSE Scan[j - 1]
    IN  Scan[Len(subModules[di])]

\* the loop over #subModules with the parent caching what the sub-module
\* returned
GetFromSubModulesCaching(st, di, key, args, i, depth) ==
    LET Scan[j \in 1..(Len(subModules[di]) + 1)] ==
            IF j > Len(subModules[di]) THEN Out(st, Miss(key, args))
            ELSE LET h == has(subModules[di][j], args[1])
                     o == get(st, subModules[di][j], <<args[1]>>, depth + 1)
                 IN  IF ~h.ok THEN Out(st, h)
                     ELSE IF h.v
                     THEN IF o.r.ok
                          THEN Out(ContainerSet(o.st, di, key, o.r.v), o.r)
                          ELSE o
                     ELSE Scan[j + 1]
    IN  Scan[i]

\* the loop over #subModules in get (lines 159-161), sub-module i onwards
RECURSIVE GetFromSubModules(_, _, _, _, _, _)
GetFromSubModules(st, di, key, args, i, depth) ==
    IF i > Len(subModules[di]) THEN Out(st, Miss(key, args))
    ELSE LET subModule == subModules[di][i]
             h == has(subModule, args[1])
         IN  IF ~h.ok THEN Out(st, h)
             ELSE IF h.v THEN get(st, subModule, <<args[1]>>, depth + 1)
             ELSE GetFromSubModules(st, di, key, args, i + 1, depth)

\* DI.get(injectable, fallbackToValue), called with the arguments args
get(st, di, args, depth) ==
    IF depth > MaxDepth
    THEN Out(st, Throw("RangeError", "Maximum call stack size exceeded"))
    ELSE
    LET injectable == IF Len(args) > 0 THEN args[1] ELSE UndefinedId
        rk == resolveKey(injectable)
    IN  IF ~rk.ok THEN Out(st, rk)
        ELSE
        LET key == rk.v
            binding == bindings[di][key]
        IN  IF binding = NoBinding
            THEN GetFromSubModules(st, di, key, args, 1, depth)
            ELSE IF ~IsSingleton(binding)
            THEN CallFunc(st, di, binding.func, depth + 1)
            ELSE IF ~ContainerHas(st, di, key)
            THEN IF IsLateResolve(binding)
                 THEN LET built == NewProxy(st, di, binding)
                          stored == ContainerSet(built, di, key,
                                        [t |-> "proxy", id |-> st.nextId])
                      IN  Out(stored, Return(ContainerGet(stored, di, key)))
                 ELSE LET made == CallFunc(st, di, binding.func, depth + 1)
                          stored == ContainerSet(made.st, di, key, made.r.v)
                      IN  IF ~made.r.ok THEN made
                          ELSE Out(stored, Return(ContainerGet(stored, di, key)))
            ELSE Out(st, Return(ContainerGet(st, di, key)))

\* the handle's get with the caller's arguments left out
resolverGetWithoutArguments(st, resolver, resolverArgs, depth) ==
    get(st, resolver.di, <<resolver.injectable>>, depth)

\* get of the handle getResolver returns:
\* _this.get.call(_this, injectable, ...arguments) (lines 191-193)
resolverGet(st, resolver, resolverArgs, depth) ==
    get(st, resolver.di, <<resolver.injectable>> \o resolverArgs, depth)

\* a JavaScript array
ArrayOf(items) == [t |-> "array", items |-> items]

\* injectables.map(this.get): map hands the index to get as a second
\* argument, which get takes as the fallback
getAllWithIndex(st, di, injectables, i, acc) ==
    LET Walk[j \in 0..Len(injectables)] ==
            IF j = 0 THEN Out(st, Return(<<>>))
            ELSE LET before == Walk[j - 1]
                     one == get(before.st, di,
                                <<injectables[j], [t |-> "number", n |-> j - 1]>>, 1)
                 IN  IF ~before.r.ok THEN before
                     ELSE IF ~one.r.ok THEN one
                     ELSE Out(one.st, Return(Append(before.r.v, one.r.v)))
        end == Walk[Len(injectables)]
    IN  IF end.r.ok THEN Out(end.st, Return(ArrayOf(end.r.v))) ELSE end

\* DI.getAll(...injectables):
\* injectables.map((injectable) => this.get(injectable)), element i onwards
getAll(st, di, injectables, i, acc) ==
    IF i > Len(injectables) THEN Out(st, Return(ArrayOf(acc)))
    ELSE LET one == get(st, di, <<injectables[i]>>, 1)
         IN  IF ~one.r.ok THEN one
             ELSE getAll(one.st, di, injectables, i + 1, Append(acc, one.r.v))

\* this.#__instance = ...; this.#hasInstance = true (lines 51-52)
MemoizeSkipped(proxy, instance) == proxy
Memoize(proxy, instance) ==
    [proxy EXCEPT !.hasInstance = TRUE, !.instance = instance]

\* the end of #getInstance after the getter was called with the outcome
\* made: when it threw nothing is memoized
Memoized(id, made) ==
    IF ~made.r.ok THEN made
    ELSE Out([made.st EXCEPT !.proxies[id] = Memoize(@, made.r.v)], made.r)

\* DIProxyBuilder.#getInstance of the proxy id: the getter () =>
\* binding.func(this) is called unless an instance is memoized
getInstance(st, id) ==
    IF st.proxies[id].hasInstance
    THEN Out(st, Return(st.proxies[id].instance))
    ELSE Memoized(id, CallFunc(st, st.proxies[id].di, st.proxies[id].func, 1))

\* instance[p]: the constructor keeps its n-th argument as the field n
PropertyOf(instance, p) ==
    IF p \in 1..Len(instance.args) THEN instance.args[p] ELSE Undefined

\* --------------------------------------------------------------- actions
\* opts: each option is "omitted", "undefined", "true" or "false"; NoOpts
\* is opts omitted or {}
Opts(isSingleton, lateResolve) ==
    [isSingleton |-> isSingleton, lateResolve |-> lateResolve]
NoOpts == Opts("omitted", "omitted")

\* {option = default} = opts || {}: the default replaces an option that is
\* omitted or undefined
DefaultToIgnored(option, default) == option = "true"
DefaultTo(option, default) ==
    IF option \in {"omitted", "undefined"} THEN default ELSE option = "true"

\* dependenciesArrayIsEmpty ? false : lateResolve (line 229)
StoredLateResolveAsGiven(dependenciesArrayIsEmpty, lateResolve) == lateResolve
StoredLateResolve(dependenciesArrayIsEmpty, lateResolve) ==
    IF dependenciesArrayIsEmpty THEN FALSE ELSE lateResolve

\* dependencies left null where dep is omitted
HasDependenciesWhenGiven(dep) == dep.kind = "array"

\* const dependencies = !dep ? [] : Array.isArray(dep) ? dep : null
\* (line 201): whether dependencies is an array, not null
HasDependencies(dep) == dep.kind \in {"omitted", "array"}

\* bind resolving the key before it looks at the dependencies
BindCallKeyFirst(di, injectableArg, dep, opts) ==
    LET token == injectableArg
        injectable == IF token.kind = "token" THEN token.value ELSE token
        hasDependencies == HasDependencies(dep)
        dependencies == IF dep.kind = "array" THEN dep.items ELSE <<>>
        dependenciesArrayIsEmpty ==
            hasDependencies /\ Len(dependencies) = 0
        func == IF hasDependencies
                THEN GeneratedFunc(injectable, dependencies)
                ELSE dep
        isSingleton == DefaultTo(opts.isSingleton, TRUE)
        lateResolve == DefaultTo(opts.lateResolve, FALSE)
        rk == resolveKey(token)
    IN  IF ~rk.ok THEN [r |-> rk]
        ELSE IF hasDependencies /\ ~Constructable(injectable)
        THEN [r |-> Throw("Error",
                  "Array of dependencies requires a constructable injectable")]
        ELSE [r |-> Return(This(di)),
              key |-> rk.v,
              binding |-> [func |-> func,
                           isSingleton |-> isSingleton,
                           lateResolve |->
                               StoredLateResolve(dependenciesArrayIsEmpty,
                                                 lateResolve)]]

\* What one bind call does: the outcome r and, when it returns, the key
\* and the record stored for it
BindCall(di, injectableArg, dep, opts) ==
    LET token == injectableArg
        injectable == IF token.kind = "token" THEN token.value ELSE token
        hasDependencies == HasDependencies(dep)
        dependencies == IF dep.kind = "array" THEN dep.items ELSE <<>>
        dependenciesArrayIsEmpty ==
            hasDependencies /\ Len(dependencies) = 0
        func == IF hasDependencies
                THEN GeneratedFunc(injectable, dependencies)
                ELSE dep
        isSingleton == DefaultTo(opts.isSingleton, TRUE)
        lateResolve == DefaultTo(opts.lateResolve, FALSE)
        rk == resolveKey(token)
    IN  IF hasDependencies /\ ~Constructable(injectable)
        THEN [r |-> Throw("Error",
                  "Array of dependencies requires a constructable injectable")]
        ELSE IF ~rk.ok THEN [r |-> rk]
        ELSE [r |-> Return(This(di)),
              key |-> rk.v,
              binding |-> [func |-> func,
                           isSingleton |-> isSingleton,
                           lateResolve |->
                               StoredLateResolve(dependenciesArrayIsEmpty,
                                                 lateResolve)]]

\* the history after the watched key is bound or its container cleared
Stale(g) == IF g = None THEN None ELSE [g EXCEPT !.stale = TRUE]

\* the history after the watched container was cleared
Cleared(g) ==
    IF g = None THEN None ELSE [g EXCEPT !.stale = TRUE, !.cleared = TRUE]

Watch(di, key) == [di |-> di, key |-> key]

\* if (this.#container.has(key)) this.#container.delete(key) (line 225)
ContainerDeleteSkipped(cache, di, key) == cache
ContainerDeleteAll(cache, di, key) ==
    [cache EXCEPT ![di] = [k \in Keys |-> NoEntry]]
ContainerDelete(cache, di, key) == [cache EXCEPT ![di][key] = NoEntry]

\* DI.bind(injectable, dep, opts)
Bind(di, injectable, dep, opts) ==
    LET b == BindCall(di, injectable, dep, opts)
    IN  /\ last' = [op |-> "bind", di |-> di, injectable |-> injectable,
                    dep |-> dep, opts |-> opts, r |-> b.r]
        /\ IF b.r.ok
           THEN /\ container' = ContainerDelete(container, di, b.key)
                /\ bindings' = [bindings EXCEPT ![di][b.key] = b.binding]
                /\ got' = IF watch = Watch(di, b.key) THEN Stale(got) ELSE got
           ELSE UNCHANGED <<container, bindings, got>>
        /\ UNCHANGED <<subModules, nextId, proxies, watch>>

\* The state and the record of the call after get was called with the
\* arguments args, directly (op = "get") or through a resolver
\* (op = "resolver.get"), o being its outcome
GetDone(op, di, args, o) ==
    LET rk == resolveKey(IF Len(args) > 0 THEN args[1] ELSE UndefinedId)
    IN  /\ o.st.nextId <= MaxInst + 1
        /\ container' = o.st.container
        /\ nextId' = o.st.nextId
        /\ proxies' = o.st.proxies
        /\ last' = [op |-> op, di |-> di, args |-> args, r |-> o.r,
                    prev |-> IF rk.ok /\ watch = Watch(di, rk.v)
                             THEN got ELSE None,
                    idBefore |-> nextId]
        /\ got' = IF rk.ok /\ o.r.ok /\ watch = Watch(di, rk.v)
                  THEN [t |-> "got", v |-> o.r.v, stale |-> FALSE,
                        cleared |-> FALSE]
                  ELSE got
        /\ UNCHANGED <<bindings, subModules, watch>>

\* A call of get with the arguments args
GetCall(op, di, args) == GetDone(op, di, args, get(State, di, args, 0))

\* DI.get(injectable) and DI.get(injectable, fallbackToValue)
Get(di, args) == GetCall("get", di, args)

\* DI.getResolver(injectable).get(...resolverArgs): the call is recorded
\* with the arguments of the get it stands for
ResolverGet(di, injectable, resolverArgs) ==
    GetDone("resolver.get", di, <<injectable>> \o resolverArgs,
            resolverGet(State, Resolver(di, injectable), resolverArgs, 0))

\* the state and the record of the call after getAll, o being its outcome
GotAll(di, injectables, o) ==
    /\ o.st.nextId <= MaxInst + 1
    /\ container' = o.st.container
    /\ nextId' = o.st.nextId
    /\ proxies' = o.st.proxies
    /\ last' = [op |-> "getAll", di |-> di, injectables |-> injectables,
                r |-> o.r, idBefore |-> nextId]
    /\ UNCHANGED <<bindings, subModules, watch, got>>

\* DI.getAll(...injectables)
GetAll(di, injectables) ==
    GotAll(di, injectables, getAll(State, di, injectables, 1, <<>>))

\* the state and the record of the call after a read of the field p of the
\* proxy id, o being the outcome of its #getInstance
Accessed(id, p, o) ==
    /\ o.st.nextId <= MaxInst + 1
    /\ container' = o.st.container
    /\ nextId' = o.st.nextId
    /\ proxies' = o.st.proxies
    /\ last' = [op |-> "access", id |-> id, p |-> p,
                r |-> IF o.r.ok THEN Return(PropertyOf(o.r.v, p)) ELSE o.r,
                target |-> IF o.r.ok THEN o.r.v ELSE None,
                wasForced |-> proxies[id].hasInstance,
                idBefore |-> nextId]
    /\ UNCHANGED <<bindings, subModules, watch, got>>

\* proxy[p]: the handler's get(_, p) of the proxy id (lines 60-62)
Access(id, p) ==
    /\ id \in DOMAIN proxies
    /\ Accessed(id, p, getInstance(State, id))

\* DI.getResolver(injectable), called by itself
GetResolver(di, injectable) ==
    LET o == getResolver(State, di, injectable, 0)
    IN  /\ o.st.nextId <= MaxInst + 1
        /\ container' = o.st.container
        /\ nextId' = o.st.nextId
        /\ proxies' = o.st.proxies
        /\ last' = [op |-> "getResolver", di |-> di,
                    injectable |-> injectable, r |-> o.r]
        /\ UNCHANGED <<bindings, subModules, watch, got>>

\* a has that resolves the identifier as get does, o being the outcome
HasResolved(di, injectable, o) ==
    /\ o.st.nextId <= MaxInst + 1
    /\ container' = o.st.container
    /\ nextId' = o.st.nextId
    /\ proxies' = o.st.proxies
    /\ last' = [op |-> "has", di |-> di, injectable |-> injectable,
                r |-> has(di, injectable)]
    /\ UNCHANGED <<bindings, subModules, watch, got>>
HasResolving(di, injectable) ==
    HasResolved(di, injectable, get(State, di, <<injectable, Undefined>>, 0))

\* DI.has(injectable)
Has(di, injectable) ==
    /\ last' = [op |-> "has", di |-> di, injectable |-> injectable,
                r |-> has(di, injectable)]
    /\ UNCHANGED <<bindings, container, subModules, nextId, proxies, watch, got>>

\* DI.getBinding(injectable)
GetBinding(di, injectable) ==
    /\ last' = [op |-> "getBinding", di |-> di, injectable |-> injectable,
                r |-> getBinding(di, injectable)]
    /\ UNCHANGED <<bindings, container, subModules, nextId, proxies, watch, got>>

\* DI.subModule(...modules).  A chain that leads back to the container is
\* a caller error the engine does not check; the calls made here keep the
\* chain acyclic by attaching only containers of higher rank, and attach
\* a container to the same parent once.
SubModule(di, modules) ==
    /\ \A i \in 1..Len(modules) :
           /\ Rank(modules[i]) > Rank(di)
           /\ \A j \in 1..Len(subModules[di]) : subModules[di][j] # modules[i]
           /\ \A j \in 1..Len(modules) : modules[j] = modules[i] => j = i
    /\ subModules' = [subModules EXCEPT ![di] = @ \o modules]
    /\ last' = [op |-> "subModule", di |-> di, modules |-> modules,
                r |-> Return(Undefined)]
    /\ UNCHANGED <<bindings, container, nextId, proxies, watch, got>>

\* the containers clear() reaches from di: di and its sub-modules, recursively
RECURSIVE Attached(_)

\* clear() reaching the container alone
AttachedSelfOnly(di) == {di}

Attached(di) ==
    {di} \cup UNION {Attached(subModules[di][i]) : i \in 1..Len(subModules[di])}

\* clear() emptying the Binding Tables and keeping the Instance Caches
ClearBindingsOnly(di) ==
    LET cleared == Attached(di)
        Reset(f, empty) ==
            [d \in DIs |-> IF d \in cleared THEN [k \in Keys |-> empty] ELSE f[d]]
    IN  /\ bindings' = Reset(bindings, NoBinding)
        /\ got' = IF watch.di \in cleared THEN Cleared(got) ELSE got
        /\ last' = [op |-> "clear", di |-> di, r |-> Return(Undefined)]
        /\ UNCHANGED <<container, subModules, nextId, proxies, watch>>

\* clear() also emptying the sub-module list of every container it reaches
ClearDetaching(di) ==
    LET cleared == Attached(di)
        Reset(f, empty) ==
            [d \in DIs |-> IF d \in cleared THEN [k \in Keys |-> empty] ELSE f[d]]
    IN  /\ bindings' = Reset(bindings, NoBinding)
        /\ container' = Reset(container, NoEntry)
        /\ subModules' = [d \in DIs |-> IF d \in cleared THEN <<>>
                                          ELSE subModules[d]]
        /\ got' = IF watch.di \in cleared THEN Cleared(got) ELSE got
        /\ last' = [op |-> "clear", di |-> di, r |-> Return(Undefined)]
        /\ UNCHANGED <<nextId, proxies, watch>>

\* DI.clear()
Clear(di) ==
    LET cleared == Attached(di)
        Reset(f, empty) ==
            [d \in DIs |-> IF d \in cleared THEN [k \in Keys |-> empty] ELSE f[d]]
    IN  /\ bindings' = Reset(bindings, NoBinding)
        /\ container' = Reset(container, NoEntry)
        /\ got' = IF watch.di \in cleared THEN Cleared(got) ELSE got
        /\ last' = [op |-> "clear", di |-> di, r |-> Return(Undefined)]
        /\ UNCHANGED <<subModules, nextId, proxies, watch>>

\* -------------------------------------------------------- specifications
Fallback == [t |-> "fallback"]   \* a value no construction function returns

AllOpts == {NoOpts, Opts("false", "omitted"), Opts("omitted", "true"),
            Opts("false", "true")}

Omitted == [kind |-> "omitted"]
Array(items) == [kind |-> "array", items |-> items]

\* One container; A is built from B or by a function, B by a function
CoreBinds ==
    {<<ClsA, Array(<<ClsB>>)>>, <<ClsA, Fn("f1", ClsA, <<>>)>>,
     <<ClsB, Fn("f2", ClsB, <<literal(Lit10)>>)>>}
CoreIds == {ClsA, ClsB}
CoreArgs == {<<i>> : i \in CoreIds} \cup {<<ClsA, Fallback>>}

Next ==
    \/ \E b \in CoreBinds, opts \in AllOpts : Bind("P", b[1], b[2], opts)
    \/ \E args \in CoreArgs : Get("P", args)
    \/ Clear("P")

Init == InitWatching({Watch("P", resolveKey(i).v) : i \in CoreIds})

Spec == Init /\ [][Next]_vars

\* Parent P and its sub-module S1: each binds A to a function of its own,
\* S1 also to an array with the unbound B
SubBinds ==
    {<<"P", ClsA, Fn("P", ClsA, <<>>), NoOpts>>,
     <<"S1", ClsA, Array(<<ClsB>>), NoOpts>>}
    \cup {<<"S1", ClsA, Fn("S1", ClsA, <<>>), opts>> : opts \in AllOpts}
SubArgs == {<<ClsA>>, <<ClsA, Fallback>>}

NextSub ==
    \/ \E b \in SubBinds : Bind(b[1], b[2], b[3], b[4])
    \/ SubModule("P", <<"S1">>)
    \/ \E di \in {"P", "S1"}, args \in SubArgs : Get(di, args)
    \/ \E di \in {"P", "S1"} : Has(di, ClsA)

InitSub == InitWatching({Watch(di, resolveKey(ClsA).v) : di \in {"P", "S1"}})

SpecSub == InitSub /\ [][NextSub]_vars

\* Parent P with sub-modules S1 and S2 and N below S1: P, S2 and N bind A,
\* each to a function of its own
OrderBinds == {<<di, ClsA, Fn(di, ClsA, <<>>)>> : di \in {"P", "S2", "N"}}
OrderAttach == {<<"P", <<"S1">>>>, <<"P", <<"S2">>>>, <<"P", <<"S1", "S2">>>>,
                <<"S1", <<"N">>>>}

NextOrder ==
    \/ \E b \in OrderBinds : Bind(b[1], b[2], b[3], NoOpts)
    \/ \E a \in OrderAttach : SubModule(a[1], a[2])
    \/ \E di \in {"P", "S1"} : Get(di, <<ClsA>>)
    \/ \E di \in {"P", "S1"} : Has(di, ClsA)
    \/ \E di \in {"P", "S1"} : GetBinding(di, ClsA)

InitOrder == InitWatching({Watch("P", resolveKey(ClsA).v)})

SpecOrder == InitOrder /\ [][NextOrder]_vars

\* Every kind of identifier: the string 'X', the class A, the symbol
\* Symbol('B') and the token of A.  P has the sub-modules S1 and S2; P
\* binds the class and the token, S2 the token, S1 the symbol.
KeyIds == {StrX, ClsA, SymB, TokA}
KeyBinds ==
    {<<"P", ClsA, Fn("P", ClsA, <<>>)>>, <<"P", TokA, Fn("P", ClsA, <<>>)>>,
     <<"S2", TokA, Fn("S2", ClsA, <<>>)>>, <<"S1", SymB, Fn("S1", ClsB, <<>>)>>}
KeyArgs == {<<>>, <<Undefined>>}

NextKey ==
    \/ \E b \in KeyBinds : Bind(b[1], b[2], b[3], NoOpts)
    \/ SubModule("P", <<"S1", "S2">>)
    \/ \E di \in {"P", "S1"}, i \in KeyIds, a \in KeyArgs : Get(di, <<i>> \o a)
    \/ \E i \in {SymB, TokA}, a \in KeyArgs : ResolverGet("P", i, a)
    \/ \E di \in {"P", "S1"}, i \in {SymB, TokA} : Has(di, i)

InitKey == InitWatching({Watch("P", resolveKey(ClsA).v)})

SpecKey == InitKey /\ [][NextKey]_vars

\* One container where A is built from B, B from C and C from nothing or
\* from the token of B, which nothing binds
DepsBinds ==
    {<<ClsA, Array(<<ClsB>>), opts>> :
        opts \in {NoOpts, Opts("false", "omitted"), Opts("omitted", "true")}}
    \cup {<<ClsB, Array(<<ClsC>>), opts>> : opts \in {NoOpts, Opts("omitted", "true")}}
    \cup {<<ClsC, Omitted, NoOpts>>, <<ClsC, Array(<<TokB>>), NoOpts>>}
DepsArgs == {<<ClsA>>, <<ClsA, Fallback>>, <<ClsB>>}

NextDeps ==
    \/ \E b \in DepsBinds : Bind("P", b[1], b[2], b[3])
    \/ \E args \in DepsArgs : Get("P", args)

InitDeps == InitWatching({Watch("P", resolveKey(ClsA).v)})

SpecDeps == InitDeps /\ [][NextDeps]_vars

\* ---------------------------------------------------------------- claims
\* the key a call recorded in last was made for
LastKey ==
    IF last.op \in {"get", "resolver.get"} THEN resolveKey(last.args[1]).v
    ELSE resolveKey(last.injectable).v

LastGetReturned ==
    /\ last.op \in {"get", "resolver.get"}
    /\ last.r.ok
    /\ resolveKey(last.args[1]).ok

HasLocal(di, key) == bindings[di][key] # NoBinding

\* the construction function that produced the value v
ProducedBy(v) ==
    IF v.t = "proxy" THEN proxies[v.id].func
    ELSE IF v.t = "object" THEN v.by
    ELSE None

\* C1: a get of a key with a local singleton binding returns the very
\* value the previous get of that key on that container returned, when the
\* key was not bound and the container not cleared in between.
C1_SingletonIdentity ==
    (/\ LastGetReturned
     /\ HasLocal(last.di, LastKey)
     /\ bindings[last.di][LastKey].isSingleton
     /\ last.prev # None
     /\ ~last.prev.stale)
    => last.r.v = last.prev.v

C1_Witness ==
    /\ LastGetReturned
    /\ HasLocal(last.di, LastKey)
    /\ bindings[last.di][LastKey].isSingleton
    /\ last.prev # None
    /\ ~last.prev.stale
    /\ last.r.v.t \in {"object", "proxy"}

\* C2: a key whose local binding is not a singleton never has an Instance
\* Cache entry, and every get of it returns an object that its construction
\* function built during that call, distinct from the one returned before.
C2_NonSingletonFresh ==
    /\ \A di \in DIs, k \in Keys :
           (HasLocal(di, k) /\ ~bindings[di][k].isSingleton)
           => container[di][k] = NoEntry
    /\ (/\ LastGetReturned
        /\ HasLocal(last.di, LastKey)
        /\ ~bindings[last.di][LastKey].isSingleton)
       => /\ last.r.v.t = "object"
          /\ last.r.v.id >= last.idBefore
          /\ last.r.v.by = bindings[last.di][LastKey].func
          /\ last.prev # None => last.r.v # last.prev.v

C2_Witness ==
    /\ LastGetReturned
    /\ HasLocal(last.di, LastKey)
    /\ ~bindings[last.di][LastKey].isSingleton
    /\ last.prev # None
    /\ ~last.prev.stale
    /\ last.prev.v.t = "object"

\* C3: a bind leaves no Instance Cache entry for its key, and the first get
\* of a locally bound key after the key was bound again returns a value
\* that the new construction function produced, never the value a get
\* returned before the bind.
C3_RebindEvicts ==
    /\ (last.op = "bind" /\ last.r.ok) => container[last.di][LastKey] = NoEntry
    /\ (/\ LastGetReturned
        /\ HasLocal(last.di, LastKey)
        /\ last.prev # None
        /\ last.prev.stale)
       => /\ last.r.v # last.prev.v
          /\ ProducedBy(last.r.v) = bindings[last.di][LastKey].func

C3_Witness ==
    /\ LastGetReturned
    /\ HasLocal(last.di, LastKey)
    /\ bindings[last.di][LastKey].isSingleton
    /\ last.prev # None
    /\ last.prev.stale
    /\ last.prev.v.t = "object"
    /\ last.prev.v.by # bindings[last.di][LastKey].func

\* the containers get and getBinding search from di, in search order: di,
\* then each sub-module with everything below it, in attachment order
RECURSIVE Preorder(_)
Preorder(di) ==
    LET Rest[i \in 1..(Len(subModules[di]) + 1)] ==
            IF i > Len(subModules[di]) THEN <<>>
            ELSE Preorder(subModules[di][i]) \o Rest[i + 1]
    IN  <<di>> \o Rest[1]

\* the first container in search order from di that binds key, or "none"
Owner(di, key) ==
    LET order == Preorder(di)
        binders == {i \in 1..Len(order) : HasLocal(order[i], key)}
    IN  IF binders = {} THEN "none"
        ELSE order[CHOOSE i \in binders : \A j \in binders : i <= j]

\* C4: a get called with a fallback returns the fallback exactly when has
\* is false for the key on the called container.
C4_FallbackIffNotHas ==
    (/\ last.op = "get"
     /\ Len(last.args) > 1
     /\ resolveKey(last.args[1]).ok)
    => ((last.r = Return(last.args[2])) <=> ~has(last.di, last.args[1]).v)

C4_Witness ==
    /\ last.op = "get"
    /\ Len(last.args) > 1
    /\ ~HasLocal(last.di, LastKey)
    /\ has(last.di, last.args[1]).v
    /\ ~last.r.ok

\* C9: getBinding reports, and get resolves with, the binding of the first
\* container that binds the key in search order: the called container
\* itself, else its sub-modules in attachment order, depth first.
C9_ResolutionOrder ==
    /\ (last.op = "getBinding" /\ last.r.ok)
       => IF Owner(last.di, LastKey) = "none" THEN last.r.v = Undefined
          ELSE LET binding == bindings[Owner(last.di, LastKey)][LastKey]
               IN  last.r.v = [t |-> "binding",
                               isSingleton |-> binding.isSingleton,
                               lateResolve |-> binding.lateResolve,
                               resolveFunction |-> binding.func]
    /\ (LastGetReturned /\ Owner(last.di, LastKey) # "none")
       => ProducedBy(last.r.v) = bindings[Owner(last.di, LastKey)][LastKey].func
    /\ (last.op = "get" /\ Owner(last.di, LastKey) = "none")
       => last.r = Miss(LastKey, last.args)

C9_Witness ==
    /\ LastGetReturned
    /\ last.di = "P"
    /\ subModules["P"] = <<"S1", "S2">>
    /\ subModules["S1"] = <<"N">>
    /\ HasLocal("N", LastKey)
    /\ HasLocal("S2", LastKey)
    /\ ProducedBy(last.r.v) = bindings["N"][LastKey].func

\* C10: a key resolved through a sub-module is cached in the container that
\* binds it and nowhere else; the parent's get returns the instance that
\* container's own get returns; once the parent binds the key itself its
\* get returns another instance while the sub-module keeps its own.
C10_SubModuleOwnsInstance ==
    /\ \A di \in DIs, k \in Keys : ~HasLocal(di, k) => container[di][k] = NoEntry
    /\ (/\ LastGetReturned
        /\ Owner(last.di, LastKey) \notin {"none", last.di}
        /\ bindings[Owner(last.di, LastKey)][LastKey].isSingleton)
       => /\ last.r.v = container[Owner(last.di, LastKey)][LastKey]
          /\ (/\ watch = Watch(Owner(last.di, LastKey), LastKey)
              /\ got # None
              /\ ~got.stale)
             => last.r.v = got.v
    /\ (/\ LastGetReturned
        /\ HasLocal(last.di, LastKey)
        /\ last.prev # None)
       => IF last.prev.stale THEN last.r.v # last.prev.v
          ELSE bindings[last.di][LastKey].isSingleton => last.r.v = last.prev.v

C10_Witness ==
    /\ LastGetReturned
    /\ last.di = "S1"
    /\ subModules["P"] = <<"S1">>
    /\ HasLocal("P", LastKey)
    /\ container["P"][LastKey] # NoEntry
    /\ watch = Watch("S1", LastKey)
    /\ last.prev # None
    /\ ~last.prev.stale
    /\ last.r.v = last.prev.v
    /\ last.r.v # container["P"][LastKey]

\* String(key): the text of a key in an error message
KeyText(key) == IF key.t = "sym" THEN "Symbol(" \o key.s \o ")" ELSE key.s

\* the unresolved-binding error for a key
UnresolvedBindingError(key) ==
    Throw("Error", "No binding for injectable \"" \o KeyText(key) \o "\"")

LastGetCalled ==
    /\ last.op \in {"get", "resolver.get"}
    /\ resolveKey(last.args[1]).ok

\* the dependencies of an injectable looked up from di, direct and
\* transitive, each with the container that resolves it
RECURSIVE DependenciesOf(_, _)
DependenciesOf(di, injectable) ==
    LET owner == Owner(di, resolveKey(injectable).v)
        deps == bindings[owner][resolveKey(injectable).v].func.deps
        direct == {deps[i] : i \in {j \in 1..Len(deps) : deps[j].kind # "DILiteral"}}
    IN  IF owner = "none" THEN {}
        ELSE {[di |-> owner, injectable |-> d] : d \in direct}
             \cup UNION {DependenciesOf(owner, d) : d \in direct}

Unbound(dep) == Owner(dep.di, resolveKey(dep.injectable).v) = "none"

\* The first dependency without a binding that a get of the injectable on
\* di runs into, or None: the construction function of a binding runs
\* unless the binding is a singleton that is cached or resolves late, and
\* resolves the dependencies in array order in the container that owns the
\* binding.
RECURSIVE FirstUnbound(_, _)
FirstUnbound(di, injectable) ==
    LET key == resolveKey(injectable).v
        owner == Owner(di, key)
        binding == bindings[owner][key]
        deps == binding.func.deps
        Walk[i \in 1..(Len(deps) + 1)] ==
            IF i > Len(deps) THEN None
            ELSE IF deps[i].kind = "DILiteral" THEN Walk[i + 1]
            ELSE IF FirstUnbound(owner, deps[i]) # None
            THEN FirstUnbound(owner, deps[i])
            ELSE Walk[i + 1]
    IN  IF owner = "none" THEN [di |-> di, injectable |-> injectable]
        ELSE IF binding.isSingleton
                /\ (container[owner][key] # NoEntry \/ binding.lateResolve)
        THEN None
        ELSE Walk[1]

\* C5 as claimed: a get of a bound key that has a dependency without a
\* binding, direct or transitive, throws the unresolved-binding error
\* naming such a dependency, with or without a fallback.
C5_AnyUnboundDependencyThrows ==
    (/\ LastGetCalled
     /\ has(last.di, last.args[1]).v
     /\ \E dep \in DependenciesOf(last.di, last.args[1]) : Unbound(dep))
    => \E dep \in DependenciesOf(last.di, last.args[1]) :
           /\ Unbound(dep)
           /\ last.r = UnresolvedBindingError(resolveKey(dep.injectable).v)

\* C5 amended: when the construction function of a bound key runs during
\* the get and runs into a dependency without a binding, the get throws,
\* with or without a fallback, the error a get of that dependency throws.
C5_RunningIntoUnboundThrows ==
    (/\ LastGetCalled
     /\ has(last.di, last.args[1]).v
     /\ FirstUnbound(last.di, last.args[1]) # None)
    => last.r = Miss(resolveKey(FirstUnbound(last.di, last.args[1]).injectable).v,
                     <<FirstUnbound(last.di, last.args[1]).injectable>>)

C5_Witness ==
    /\ LastGetCalled
    /\ Len(last.args) > 1
    /\ last.args[1] = ClsA
    /\ has(last.di, last.args[1]).v
    /\ FirstUnbound(last.di, last.args[1]) = [di |-> "P", injectable |-> ClsC]
    /\ last.r = UnresolvedBindingError(resolveKey(ClsC).v)

\* C6 as claimed: for a key without a binding, a get or a resolver get
\* given undefined as the fallback returns undefined, and one given no
\* fallback throws the unresolved-binding error.
C6_FallbackByPresence ==
    (/\ LastGetCalled
     /\ ~has(last.di, last.args[1]).v)
    => IF Len(last.args) > 1 THEN last.r = Return(last.args[2])
       ELSE last.r = UnresolvedBindingError(LastKey)

\* C7 as claimed: a get without fallback of an identifier of any kind that
\* has no binding throws the error whose message is
\* No binding for injectable "<key>".
C7_UnresolvedMessage ==
    (/\ last.op = "get"
     /\ Len(last.args) = 1
     /\ resolveKey(last.args[1]).ok
     /\ ~has(last.di, last.args[1]).v)
    => last.r = UnresolvedBindingError(LastKey)

\* the containers that have di in their sub-module list
Parents(di) ==
    {p \in DIs : \E i \in 1..Len(subModules[p]) : subModules[p][i] = di}

\* the key is bound in a parent of di, or in another sub-module of one
BoundBesides(di, key) ==
    \E p \in Parents(di) :
        \/ HasLocal(p, key)
        \/ \E i \in 1..Len(subModules[p]) :
               subModules[p][i] # di /\ Owner(subModules[p][i], key) # "none"

\* C8 as claimed: for a key bound only in a parent or sibling of a
\* sub-module, has on the sub-module is false and get throws the
\* unresolved-binding error; for a key bound only below a container, has on
\* the container is true and get does not miss.
C8_DownwardOnly ==
    /\ (/\ last.op \in {"get", "has"}
        /\ Owner(last.di, LastKey) = "none"
        /\ BoundBesides(last.di, LastKey))
       => IF last.op = "has" THEN last.r = Return(FALSE)
          ELSE Len(last.args) = 1 => last.r = UnresolvedBindingError(LastKey)
    /\ (/\ last.op \in {"get", "has"}
        /\ Owner(last.di, LastKey) \notin {"none", last.di})
       => IF last.op = "has" THEN last.r = Return(TRUE)
          ELSE last.r # Miss(LastKey, last.args)

\* -------------------------------------------- dependencies across modules
\* Parent P with the sub-modules S1 and S2: S1 builds A from B, and B is
\* bound by a function in P, in S2 or in S1 itself
LateralBinds ==
    {<<"S1", ClsA, Array(<<ClsB>>), opts>> :
        opts \in {NoOpts, Opts("false", "omitted"), Opts("omitted", "true")}}
    \cup {<<di, ClsB, Fn(di, ClsB, <<>>), NoOpts>> : di \in {"P", "S1", "S2"}}
LateralArgs == {<<ClsA>>, <<ClsA, Fallback>>}

NextLateral ==
    \/ \E b \in LateralBinds : Bind(b[1], b[2], b[3], b[4])
    \/ SubModule("P", <<"S1", "S2">>)
    \/ \E di \in {"P", "S1"}, args \in LateralArgs : Get(di, args)
    \/ Has("P", ClsB)

InitLateral == InitWatching({Watch("P", resolveKey(ClsA).v)})

SpecLateral == InitLateral /\ [][NextLateral]_vars

\* the direct dependencies of the binding of the key in its owner that the
\* owner cannot resolve although a parent or sibling of the owner binds them
LateralDependencies(owner, key) ==
    LET deps == bindings[owner][key].func.deps
    IN  {deps[i] : i \in {j \in 1..Len(deps) :
                              /\ deps[j].kind # "DILiteral"
                              /\ Owner(owner, resolveKey(deps[j]).v) = "none"
                              /\ BoundBesides(owner, resolveKey(deps[j]).v)}}

\* C11 as claimed: a get that resolves a key bound to an array in a
\* sub-module throws the unresolved-binding error naming a dependency that
\* only a parent or a sibling of that sub-module binds.
C11_LateralDependencyThrows ==
    (/\ LastGetCalled
     /\ Owner(last.di, LastKey) # "none"
     /\ Parents(Owner(last.di, LastKey)) # {}
     /\ bindings[Owner(last.di, LastKey)][LastKey].func.kind = "generated"
     /\ LateralDependencies(Owner(last.di, LastKey), LastKey) # {})
    => \E d \in LateralDependencies(Owner(last.di, LastKey), LastKey) :
           last.r = UnresolvedBindingError(resolveKey(d).v)

\* C11 amended: when the parent's get runs the construction function of a
\* key bound in a sub-module and the function runs into a dependency that
\* the sub-module cannot resolve, the get throws the error the sub-module's
\* get of that dependency throws, although has on the parent is true for it.
C11_LateralDependencyWhenRun ==
    (/\ LastGetCalled
     /\ Owner(last.di, LastKey) \notin {"none", last.di}
     /\ FirstUnbound(last.di, last.args[1]) # None
     /\ has(last.di, FirstUnbound(last.di, last.args[1]).injectable).v)
    => /\ FirstUnbound(last.di, last.args[1]).di = Owner(last.di, LastKey)
       /\ last.r = Miss(resolveKey(FirstUnbound(last.di, last.args[1]).injectable).v,
                        <<FirstUnbound(last.di, last.args[1]).injectable>>)

C11_Witness ==
    /\ LastGetCalled
    /\ last.di = "P"
    /\ Len(last.args) > 1
    /\ Owner("P", LastKey) = "S1"
    /\ HasLocal("S2", resolveKey(ClsB).v)
    /\ ~HasLocal("P", resolveKey(ClsB).v)
    /\ has("P", ClsB).v
    /\ last.r = UnresolvedBindingError(resolveKey(ClsB).v)

\* C12: has is true exactly when getBinding returns a binding, which is
\* exactly when the container or a container below it binds the key;
\* otherwise getBinding returns undefined without an error.
C12_HasIffGetBinding ==
    /\ \A di \in DIs, id \in AllIds :
           /\ has(di, id).ok
           /\ getBinding(di, id).ok
           /\ (has(di, id).v) <=> (getBinding(di, id).v # Undefined)
           /\ (getBinding(di, id).v # Undefined)
              <=> (Owner(di, resolveKey(id).v) # "none")
           /\ (getBinding(di, id).v # Undefined)
              => getBinding(di, id).v.t = "binding"
    /\ last.op = "has" => last.r = Return(Owner(last.di, LastKey) # "none")
    /\ last.op = "getBinding"
       => /\ last.r.ok
          /\ (last.r.v = Undefined) <=> (Owner(last.di, LastKey) = "none")

C12_Witness ==
    /\ last.op = "has"
    /\ last.di = "P"
    /\ last.r = Return(TRUE)
    /\ ~HasLocal("P", LastKey)
    /\ Owner("P", LastKey) = "N"
    /\ getBinding("P", last.injectable).v.resolveFunction
           = bindings["N"][LastKey].func

\* ------------------------------------------------------------ bind calls
\* One container.  The string 'X' is bound to a function under every
\* combination of the options and, in calls that bind rejects, to an empty
\* array, to no dependencies at all and to an array of one literal; the
\* class A is bound to an empty array, to no dependencies at all and to an
\* array of one literal.
BindIds == {StrX, ClsA}
BindOpts ==
    {NoOpts, Opts("false", "omitted"), Opts("omitted", "true"),
     Opts("false", "true"), Opts("undefined", "undefined"),
     Opts("true", "false")}
LateOpts == {NoOpts, Opts("omitted", "true"), Opts("false", "true")}
BindCalls ==
    {<<StrX, Fn("f", ClsA, <<>>), opts>> : opts \in BindOpts}
    \cup {<<StrX, dep, Opts("omitted", "true")>> :
             dep \in {Array(<<>>), Omitted, Array(<<literal(Lit5)>>)}}
    \cup {<<ClsA, Array(<<>>), opts>> : opts \in LateOpts}
    \cup {<<ClsA, Omitted, Opts("omitted", "true")>>}
    \cup {<<ClsA, Array(<<literal(Lit5)>>), opts>> :
             opts \in {Opts("omitted", "true"), Opts("undefined", "undefined")}}

NextBind ==
    \/ \E b \in BindCalls : Bind("P", b[1], b[2], b[3])
    \/ \E id \in BindIds : Get("P", <<id>>)
    \/ \E id \in BindIds : GetBinding("P", id)

InitBind == InitWatching({Watch("P", resolveKey(StrX).v)})

SpecBind == InitBind /\ [][NextBind]_vars

ArrayError ==
    Throw("Error", "Array of dependencies requires a constructable injectable")

\* C13: a bind of a string identifier with an array of dependencies, or
\* with none given, throws the array error and changes neither the Binding
\* Table nor the Instance Cache.
C13_RejectedBindChangesNothing ==
    [][(/\ last'.op = "bind"
        /\ last'.injectable.kind = "string"
        /\ last'.dep.kind \in {"omitted", "array"})
       => /\ last'.r = ArrayError
          /\ bindings' = bindings
          /\ container' = container]_vars

C13_Witness ==
    /\ last.op = "bind"
    /\ last.injectable = StrX
    /\ last.dep = Array(<<literal(Lit5)>>)
    /\ last.r = ArrayError
    /\ HasLocal("P", resolveKey(StrX).v)
    /\ container["P"][resolveKey(StrX).v] # NoEntry

\* a binding whose function bind generated from no dependencies
BoundToEmptyArray(di, key) ==
    /\ HasLocal(di, key)
    /\ bindings[di][key].func.kind = "generated"
    /\ Len(bindings[di][key].func.deps) = 0

\* C14: a binding made from an empty array of dependencies has lateResolve
\* false whatever the options were, getBinding reports it so, and a get of
\* the key never returns a proxy.
C14_EmptyArrayNeverLate ==
    /\ \A di \in DIs, k \in Keys :
           BoundToEmptyArray(di, k) => ~bindings[di][k].lateResolve
    /\ (/\ last.op = "bind"
        /\ last.r.ok
        /\ last.dep = Array(<<>>))
       => /\ BoundToEmptyArray(last.di, LastKey)
          /\ getBinding(last.di, last.injectable).v.lateResolve = FALSE
    /\ (LastGetReturned /\ BoundToEmptyArray(last.di, LastKey))
       => last.r.v.t = "object"

C14_Witness ==
    /\ last.op = "bind"
    /\ last.r.ok
    /\ last.dep = Array(<<>>)
    /\ last.opts.lateResolve = "true"
    /\ getBinding(last.di, last.injectable).v.lateResolve = FALSE

\* C15 as claimed: bind('X', [], {lateResolve: true}) returns and stores a
\* binding for 'X' that getBinding reports with lateResolve false.
C15_StringWithEmptyArrayBinds ==
    (/\ last.op = "bind"
     /\ last.injectable = StrX
     /\ last.dep = Array(<<>>)
     /\ last.opts.lateResolve = "true")
    => /\ last.r.ok
       /\ BoundToEmptyArray(last.di, LastKey)
       /\ getBinding(last.di, StrX).v.lateResolve = FALSE

\* the flags getBinding is to report after a bind with the options opts
\* and the dependencies dep
FlagsOf(dep, opts) ==
    [isSingleton |-> opts.isSingleton # "false",
     lateResolve |-> /\ opts.lateResolve = "true"
                     /\ dep # Omitted
                     /\ dep # Array(<<>>)]

\* C16: after a bind, getBinding reports isSingleton true unless the option
\* was given as false and lateResolve false unless the option was given as
\* true with a function or a non-empty array; what getBinding reports for a
\* locally bound key is what the Binding Table holds, and only a bind of
\* that key or a clear changes it.
C16_GetBindingReportsStoredFlags ==
    /\ []((last.op = "bind" /\ last.r.ok)
          => /\ getBinding(last.di, last.injectable).v.isSingleton
                   = FlagsOf(last.dep, last.opts).isSingleton
             /\ getBinding(last.di, last.injectable).v.lateResolve
                   = FlagsOf(last.dep, last.opts).lateResolve)
    /\ []((last.op = "getBinding" /\ last.r.ok /\ HasLocal(last.di, LastKey))
          => /\ last.r.v.isSingleton = bindings[last.di][LastKey].isSingleton
             /\ last.r.v.lateResolve = bindings[last.di][LastKey].lateResolve
             /\ last.r.v.resolveFunction = bindings[last.di][LastKey].func)
    /\ [][\A di \in DIs, k \in Keys :
              bindings'[di][k] # bindings[di][k]
              => \/ last'.op = "clear"
                 \/ /\ last'.op = "bind"
                    /\ last'.di = di
                    /\ resolveKey(last'.injectable) = Return(k)]_vars

C16_Witness ==
    /\ last.op = "getBinding"
    /\ HasLocal(last.di, LastKey)
    /\ last.r.v.isSingleton = FALSE
    /\ last.r.v.lateResolve = TRUE

\* ---------------------------------------------------------- late resolve
\* One container where A is built from B, as a late-resolve singleton or
\* as a plain one, and B by a function or from A, late or not; every proxy
\* handed out has its first field read
LateBinds ==
    {<<ClsA, Array(<<ClsB>>), opts>> : opts \in {NoOpts, Opts("omitted", "true")}}
    \cup {<<ClsB, Fn("fb", ClsB, <<>>), NoOpts>>}
    \cup {<<ClsB, Array(<<ClsA>>), opts>> : opts \in {NoOpts, Opts("omitted", "true")}}

NextLate ==
    \/ \E b \in LateBinds : Bind("P", b[1], b[2], b[3])
    \/ \E id \in {ClsA, ClsB} : Get("P", <<id>>)
    \/ \E id \in 1..MaxInst : Access(id, 1)

InitLate == InitWatching({Watch("P", resolveKey(ClsA).v)})

SpecLate == InitLate /\ [][NextLate]_vars

\* C17: a get of a key bound as a late-resolve singleton returns the proxy
\* the Instance Cache holds; the get that builds the proxy allocates the
\* proxy and nothing else and leaves it without an instance, and a proxy
\* comes to have an instance only in a step that reads a field of it.
C17_LateGetDefersConstruction ==
    /\ [](( /\ LastGetReturned
            /\ HasLocal(last.di, LastKey)
            /\ bindings[last.di][LastKey].isSingleton
            /\ bindings[last.di][LastKey].lateResolve)
          => /\ last.r.v.t = "proxy"
             /\ container[last.di][LastKey] = last.r.v
             /\ proxies[last.r.v.id].func = bindings[last.di][LastKey].func
             /\ nextId \in {last.idBefore, last.idBefore + 1}
             /\ nextId # last.idBefore
                => /\ last.r.v.id = last.idBefore
                   /\ ~proxies[last.r.v.id].hasInstance)
    /\ [][\A id \in DOMAIN proxies' :
              (/\ proxies'[id].hasInstance
               /\ id \in DOMAIN proxies => ~proxies[id].hasInstance)
              => (last'.op = "access" /\ last'.id = id)]_vars

C17_Witness ==
    /\ last.op = "access"
    /\ ~last.wasForced
    /\ last.r.ok
    /\ proxies[last.id].hasInstance
    /\ proxies[last.id].instance.id >= last.idBefore
    /\ container["P"][resolveKey(ClsA).v] = [t |-> "proxy", id |-> last.id]

\* C18 as claimed: every read of a field of a proxy leaves the proxy with
\* a memoized instance, and a read of a proxy that has one constructs
\* nothing.
C18_FirstAccessForces ==
    last.op = "access"
    => /\ proxies[last.id].hasInstance
       /\ last.r.ok
       /\ last.wasForced => nextId = last.idBefore

\* C18 amended: a read of a field of a proxy that returns leaves the proxy
\* with a memoized instance and returns the field of that instance; a read
\* that throws was of a proxy without an instance and leaves it without
\* one; a read of a proxy that has an instance constructs nothing; and a
\* proxy that has an instance keeps that instance in every step.
C18_ForcedOnceItReturns ==
    /\ [](last.op = "access"
          => /\ IF last.r.ok
                THEN /\ proxies[last.id].hasInstance
                     /\ proxies[last.id].instance = last.target
                     /\ last.r = Return(PropertyOf(last.target, last.p))
                ELSE /\ ~last.wasForced
                     /\ ~proxies[last.id].hasInstance
             /\ last.wasForced => (nextId = last.idBefore /\ last.r.ok)
             /\ (~last.wasForced /\ last.r.ok)
                => /\ last.target.id >= last.idBefore
                   /\ last.target.by = proxies[last.id].func)
    /\ [][\A id \in DOMAIN proxies :
              proxies[id].hasInstance => proxies'[id] = proxies[id]]_vars

C18_Witness ==
    /\ last.op = "access"
    /\ last.wasForced
    /\ last.r.ok
    /\ last.target = proxies[last.id].instance
    /\ nextId = last.idBefore

\* A and B are singletons built from each other, exactly one of them
\* resolving late
MutualOneLate ==
    LET a == bindings["P"][resolveKey(ClsA).v]
        b == bindings["P"][resolveKey(ClsB).v]
    IN  /\ a # NoBinding
        /\ b # NoBinding
        /\ a.func.deps = <<ClsB>>
        /\ b.func.deps = <<ClsA>>
        /\ a.isSingleton
        /\ b.isSingleton
        /\ a.lateResolve # b.lateResolve

\* the class an instance or a proxy stands for
ClassOf(v) ==
    IF v.t = "proxy" THEN proxies[v.id].func.target.name
    ELSE IF v.t = "object" THEN v.class
    ELSE "none"

\* C19: with A and B built from each other and exactly one of them
\* resolving late, every get of A or B returns, every read of a field
\* through a proxy returns the other one, and a read of a proxy that has
\* an instance constructs nothing.
C19_MutualLateResolves ==
    MutualOneLate
    => /\ LastGetCalled
          => /\ last.r.ok
             /\ ClassOf(last.r.v) = last.args[1].name
       /\ last.op = "access"
          => /\ last.r.ok
             /\ ClassOf(last.r.v) \in {"A", "B"}
             /\ ClassOf(last.r.v) # last.target.class
             /\ last.wasForced => nextId = last.idBefore

C19_Witness ==
    /\ MutualOneLate
    /\ last.op = "access"
    /\ last.r.ok
    /\ container["P"][resolveKey(ClsA).v] # NoEntry
    /\ container["P"][resolveKey(ClsB).v] # NoEntry
    /\ container["P"][resolveKey(ClsB).v].t = "object"
    /\ last.target.args[1] = container["P"][resolveKey(ClsB).v]
    /\ container["P"][resolveKey(ClsB).v].args[1]
           = container["P"][resolveKey(ClsA).v]

\* -------------------------------------------------------------- resolvers
\* One container where A is built from B, and B from a resolver of A that
\* its construction obtains through a factory or that was obtained before
\* the bind and passed as a literal, or from A itself
ResolverBinds ==
    {<<ClsA, Array(<<ClsB>>)>>,
     <<ClsB, Array(<<factory(ResolverOf(ClsA))>>)>>,
     <<ClsB, Array(<<literal(Resolver("P", ClsA))>>)>>,
     <<ClsB, Array(<<ClsA>>)>>}

NextResolver ==
    \/ \E b \in ResolverBinds : Bind("P", b[1], b[2], NoOpts)
    \/ \E id \in {ClsA, ClsB} : Get("P", <<id>>)
    \/ \E id \in {ClsA, ClsC, NullId} : GetResolver("P", id)
    \/ \E a \in {<<>>, <<Fallback>>} : ResolverGet("P", ClsA, a)

InitResolver == InitWatching({Watch("P", resolveKey(ClsA).v)})

SpecResolver == InitResolver /\ [][NextResolver]_vars

\* A is built from B and B from a resolver of A
ResolverBreaksCycle ==
    LET a == bindings["P"][resolveKey(ClsA).v]
        b == bindings["P"][resolveKey(ClsB).v]
    IN  /\ a # NoBinding
        /\ b # NoBinding
        /\ a.func.deps = <<ClsB>>
        /\ b.func.deps \in {<<factory(ResolverOf(ClsA))>>,
                            <<literal(Resolver("P", ClsA))>>}

\* C20: a call of getResolver returns a handle for the identifier and
\* changes no binding, no Instance Cache entry and constructs nothing,
\* whether the identifier is bound or not; when B is built from a resolver
\* of A and A from B, every get of A or B returns, and B holds the handle.
C20_GetResolverDefers ==
    /\ [][last'.op = "getResolver"
          => /\ last'.r = Return(Resolver(last'.di, last'.injectable))
             /\ bindings' = bindings
             /\ container' = container
             /\ nextId' = nextId
             /\ proxies' = proxies]_vars
    /\ []((ResolverBreaksCycle /\ LastGetCalled)
          => /\ last.r.ok
             /\ last.r.v.t = "object"
             /\ container["P"][resolveKey(ClsB).v] # NoEntry
                => container["P"][resolveKey(ClsB).v].args
                      = <<Resolver("P", ClsA)>>)

C20_Witness ==
    /\ last.op = "getResolver"
    /\ last.injectable = ClsA
    /\ ResolverBreaksCycle
    /\ bindings["P"][resolveKey(ClsB).v].func.deps[1].kind = "DIFactory"
    /\ container["P"][resolveKey(ClsA).v] = NoEntry
    /\ container["P"][resolveKey(ClsB).v] # NoEntry
    /\ container["P"][resolveKey(ClsB).v].args = <<Resolver("P", ClsA)>>

\* --------------------------------------------------------- resolver handles
\* One container where A is bound to one of two functions, as a singleton
\* or not, late-resolved or not, and cleared; A is got
\* directly and through the handle of getResolver(A)
HandleBinds ==
    {<<Fn("h1", ClsA, <<>>), opts>> : opts \in AllOpts}
    \cup {<<Fn("h2", ClsA, <<>>), NoOpts>>}
HandleArgs == {<<>>, <<Fallback>>, <<Undefined>>}

NextHandle ==
    \/ \E b \in HandleBinds : Bind("P", ClsA, b[1], b[2])
    \/ \E a \in HandleArgs : Get("P", <<ClsA>> \o a)
    \/ GetResolver("P", ClsA)
    \/ \E a \in HandleArgs : ResolverGet("P", ClsA, a)
    \/ Clear("P")

InitHandle == InitWatching({Watch("P", resolveKey(ClsA).v)})

SpecHandle == InitHandle /\ [][NextHandle]_vars

\* C21: a get made through the handle of getResolver(id) on C, with or
\* without a fallback, gives the result or the error, and leaves the
\* Instance Cache, the proxies and the allocation counter, that C.get(id)
\* with the same further arguments gives in the state the call is made in,
\* whatever was bound, re-bound or cleared before; it binds nothing.
C21_ResolverGetIsGet ==
    [][last'.op = "resolver.get"
       => /\ last'.r = get(State, last'.di, last'.args, 0).r
          /\ container' = get(State, last'.di, last'.args, 0).st.container
          /\ nextId' = get(State, last'.di, last'.args, 0).st.nextId
          /\ proxies' = get(State, last'.di, last'.args, 0).st.proxies
          /\ bindings' = bindings]_vars

\* the handle's get returned a new instance of A after A was re-bound or
\* the container cleared since the previous get
C21_Witness ==
    /\ last.op = "resolver.get"
    /\ last.args = <<ClsA>>
    /\ last.r.ok
    /\ last.r.v.t = "object"
    /\ last.r.v.id = last.idBefore
    /\ last.prev # None
    /\ last.prev.stale

\* ------------------------------------------------- arrays of dependencies
\* One container where A and B are built by functions, A as a singleton or
\* not, and C from the array [A, B] or from the array of the literal A
\* (the class itself as a value), a factory and A
ArrayBinds ==
    {<<ClsA, Fn("fa", ClsA, <<literal(Lit5)>>), NoOpts>>,
     <<ClsA, Fn("fa", ClsA, <<literal(Lit5)>>), Opts("false", "omitted")>>,
     <<ClsB, Fn("fb", ClsB, <<literal(Lit5)>>), NoOpts>>,
     <<ClsC, Array(<<ClsA, ClsB>>), NoOpts>>,
     <<ClsC, Array(<<ClsA, ClsB>>), Opts("false", "omitted")>>,
     <<ClsC, Array(<<literal(ClsA), factory(MakeObject), ClsA>>), NoOpts>>}
ArrayGetAlls == {<<>>, <<ClsA, ClsB>>, <<ClsA, ClsB, ClsC>>, <<ClsA, ClsC, ClsB>>}

NextArray ==
    \/ \E b \in ArrayBinds : Bind("P", b[1], b[2], b[3])
    \/ \E id \in {ClsA, ClsB, ClsC} : Get("P", <<id>>)
    \/ \E ids \in ArrayGetAlls : GetAll("P", ids)

InitArray == InitWatching({Watch("P", resolveKey(ClsC).v)})

SpecArray == InitArray /\ [][NextArray]_vars

\* get(id1), ..., get(idn) called in turn from the state st, without a
\* fallback, up to and including the first that throws
GetsInTurn(st, di, injectables) ==
    LET Walk[j \in 0..Len(injectables)] ==
            IF j = 0 THEN Out(st, Return(<<>>))
            ELSE LET before == Walk[j - 1]
                     one == get(before.st, di, <<injectables[j]>>, 0)
                 IN  IF ~before.r.ok THEN before
                     ELSE IF ~one.r.ok THEN one
                     ELSE Out(one.st, Return(Append(before.r.v, one.r.v)))
    IN  Walk[Len(injectables)]

\* C22: getAll(id1, ..., idn) returns the array of what get(id1), ...,
\* get(idn), called in this order without a fallback, return; when one of
\* them throws, getAll throws that error; in both cases the Instance Cache,
\* the proxies and the allocation counter are left as those gets, up to the
\* first that throws, leave them: what was resolved before stays cached and
\* no later identifier is resolved.  No binding changes.
C22_GetAllIsGetsInTurn ==
    [][last'.op = "getAll"
       => /\ GetsInTurn(State, last'.di, last'.injectables).r.ok
             => last'.r = Return(ArrayOf(
                    GetsInTurn(State, last'.di, last'.injectables).r.v))
          /\ ~GetsInTurn(State, last'.di, last'.injectables).r.ok
             => last'.r = GetsInTurn(State, last'.di, last'.injectables).r
          /\ container'
                = GetsInTurn(State, last'.di, last'.injectables).st.container
          /\ nextId' = GetsInTurn(State, last'.di, last'.injectables).st.nextId
          /\ proxies' = GetsInTurn(State, last'.di, last'.injectables).st.proxies
          /\ bindings' = bindings]_vars

\* getAll(A, C, B) threw for the unbound C: the singleton A, built by this
\* call, is cached and the bound B was not resolved
C22_Witness ==
    /\ last.op = "getAll"
    /\ last.injectables = <<ClsA, ClsC, ClsB>>
    /\ last.r = UnresolvedBindingError(resolveKey(ClsC).v)
    /\ container["P"][resolveKey(ClsA).v] # NoEntry
    /\ container["P"][resolveKey(ClsA).v].id = last.idBefore
    /\ bindings["P"][resolveKey(ClsB).v] # NoBinding
    /\ container["P"][resolveKey(ClsB).v] = NoEntry
    /\ nextId = last.idBefore + 1

\* the last call was a get that returned an object it constructed by the
\* function bind generated for the array bound to its key
BuiltFromArray ==
    /\ last.op = "get"
    /\ LastGetReturned
    /\ HasLocal(last.di, LastKey)
    /\ bindings[last.di][LastKey].func.kind = "generated"
    /\ last.r.v.t = "object"
    /\ last.r.v.id >= last.idBefore

\* the argument the generated function passes for the dependency d
PassedFor(d, argument) ==
    IF d.kind = "DILiteral" THEN argument = d.value
    ELSE IF d.kind = "DIFactory"
    THEN /\ argument.t = "object"
         /\ argument.by = d.fn
         /\ argument.args = <<This(last.di)>>
         /\ argument.id >= last.idBefore
    ELSE /\ HasLocal(last.di, resolveKey(d).v)
         /\ IF bindings[last.di][resolveKey(d).v].isSingleton
            THEN argument = container[last.di][resolveKey(d).v]
            ELSE /\ argument.t = "object"
                 /\ argument.by = bindings[last.di][resolveKey(d).v].func
                 /\ argument.id >= last.idBefore

\* C23: the function bind generates for an array of n dependencies
\* constructs the class with exactly n arguments in the order of the
\* array: a literal gives its stored value and is never looked up as a key,
\* a factory the object its function returns for the container, and any
\* other dependency what get of it on the container returns, for a
\* singleton the very instance the Instance Cache holds for its key.
C23_GeneratedFunctionArguments ==
    BuiltFromArray
    => /\ last.r.v.class = last.args[1].name
       /\ Len(last.r.v.args) = Len(bindings[last.di][LastKey].func.deps)
       /\ \A i \in 1..Len(bindings[last.di][LastKey].func.deps) :
              PassedFor(bindings[last.di][LastKey].func.deps[i], last.r.v.args[i])

\* get(C) constructed C from the literal A, a factory's object and the
\* cached instance of the singleton A
C23_Witness ==
    /\ BuiltFromArray
    /\ last.args = <<ClsC>>
    /\ bindings["P"][LastKey].func.deps
          = <<literal(ClsA), factory(MakeObject), ClsA>>
    /\ last.r.v.args[1] = ClsA
    /\ last.r.v.args[2].class = "Made"
    /\ last.r.v.args[3].class = "A"
    /\ last.r.v.args[3] = container["P"][resolveKey(ClsA).v]

\* ---------------------------------------------------------------- factories
\* One container where the plain function first, which returns its
\* argument, and the class A are each bound to the array of one factory
\* whose function returns a new object at every call; first is bound as a
\* singleton or not
FactoryBinds ==
    {<<FnFirst, Array(<<factory(MakeObject)>>), NoOpts>>,
     <<FnFirst, Array(<<factory(MakeObject)>>), Opts("false", "omitted")>>,
     <<ClsA, Array(<<factory(MakeObject)>>), NoOpts>>,
     <<ClsA, Array(<<factory(MakeObject)>>), Opts("false", "omitted")>>}

NextFactory ==
    \/ \E b \in FactoryBinds : Bind("P", b[1], b[2], b[3])
    \/ \E id \in {FnFirst, ClsA} : Get("P", <<id>>)
    \/ Has("P", FnFirst)

InitFactory == InitWatching({Watch("P", resolveKey(FnFirst).v)})

SpecFactory == InitFactory /\ [][NextFactory]_vars

\* the objects a construction of the target allocates besides those its
\* factory returns: the instance of a class, nothing for first
AllocatedByTarget(target) == IF isClass(target) THEN 1 ELSE 0

\* the object the factory of the binding returned to the construction that
\* returned v
FactoryResultIn(target, v) == IF isClass(target) THEN v.args[1] ELSE v

\* C24: a get of a key bound to an array with one factory calls the
\* factory's function once when it runs the construction function and not
\* at all when it serves a singleton from the Instance Cache: each call of
\* the factory's function allocates one object, so a get of a cached
\* singleton allocates nothing and returns the cached value, and every
\* other get allocates one factory result, the next in order of
\* allocation, and constructs the target from it.
C24_FactoryOncePerConstruction ==
    [][(/\ last'.op = "get"
        /\ HasLocal("P", resolveKey(last'.args[1]).v))
       => IF /\ bindings["P"][resolveKey(last'.args[1]).v].isSingleton
             /\ container["P"][resolveKey(last'.args[1]).v] # NoEntry
          THEN /\ nextId' = nextId
               /\ last'.r = Return(container["P"][resolveKey(last'.args[1]).v])
          ELSE /\ nextId' = nextId + 1 + AllocatedByTarget(last'.args[1])
               /\ last'.r.ok
               /\ FactoryResultIn(last'.args[1], last'.r.v).id = nextId
               /\ FactoryResultIn(last'.args[1], last'.r.v).by = MakeObject]_vars

\* the third get of first, bound as a non-singleton, returned the third
\* object the factory made, the second get having returned the second
C24_Witness ==
    /\ last.op = "get"
    /\ last.args = <<FnFirst>>
    /\ HasLocal("P", resolveKey(FnFirst).v)
    /\ ~bindings["P"][resolveKey(FnFirst).v].isSingleton
    /\ last.r.ok
    /\ last.r.v.by = MakeObject
    /\ last.r.v.id = 3
    /\ last.idBefore = 3
    /\ nextId = 4
    /\ last.prev # None
    /\ ~last.prev.stale
    /\ last.prev.v.id = 2

\* ------------------------------------------------------------------- slots
\* One container and the identifiers that may or may not share a slot of
\* its Binding Table: the class A, another class named A and the string
\* 'A'; the token of A and a token of B with the description 'A'; the
\* symbol Symbol('B').  A second Symbol('B'), the string 'Symbol(B)' and
\* the symbol Symbol.for('__DIToken__[[A]]') are looked up and never bound.
\* Every identifier is bound to a function of its own.
SlotBinds ==
    {<<ClsA, Fn("a1", ClsA, <<>>)>>, <<ClsA2, Fn("a2", ClsA2, <<>>)>>,
     <<StrA, Fn("sa", ClsB, <<>>)>>,
     <<TokA, Array(<<>>)>>, <<TokBA, Array(<<>>)>>,
     <<SymB, Fn("s1", ClsB, <<>>)>>}
SameName == {ClsA, ClsA2, StrA}
SameDescription == {TokA, TokBA}
Symbols == {SymB, SymB2, SymTokA}
PlainIds == SameName \cup Symbols \cup {StrSymB}
SlotIds == PlainIds \cup SameDescription

NextSlots ==
    \/ \E b \in SlotBinds : Bind("P", b[1], b[2], NoOpts)
    \/ \E i \in SlotIds : Get("P", <<i>>)
    \/ \E i \in SlotIds : Has("P", i)

InitSlots == InitWatching({Watch("P", resolveKey(ClsA).v)})

SpecSlots == InitSlots /\ [][NextSlots]_vars

\* the construction functions bound through the tokens, and through the
\* symbol
TokenFuncs == {GeneratedFunc(t.value, <<>>) : t \in SameDescription}
SymbolFuncs == {Fn("s1", ClsB, <<>>)}

\* something is bound in P and every binding of P was made with one of funcs
OnlyBound(funcs) ==
    /\ \E k \in Keys : bindings["P"][k] # NoBinding
    /\ \A k \in Keys :
           bindings["P"][k] # NoBinding => bindings["P"][k].func \in funcs

\* something is bound in P and no binding of P was made with one of funcs
NoneBound(funcs) ==
    /\ \E k \in Keys : bindings["P"][k] # NoBinding
    /\ \A k \in Keys :
           bindings["P"][k] # NoBinding => bindings["P"][k].func \notin funcs

\* C25: tokens with the same description address one binding, whatever
\* type each wraps: after a bind through one of them every one of them
\* reports the binding just made, and a get through one of them returns an
\* instance made by the construction function every one of them reports,
\* that of the last bind.
C25_TokensShareByDescription ==
    /\ (last.op = "bind" /\ last.injectable \in SameDescription /\ last.r.ok)
       => \A t \in SameDescription :
              /\ has("P", t) = Return(TRUE)
              /\ getBinding("P", t).v.resolveFunction
                    = GeneratedFunc(last.injectable.value, last.dep.items)
    /\ (/\ last.op = "get"
        /\ last.args[1] \in SameDescription
        /\ last.r.ok)
       => \A t \in SameDescription :
              /\ has("P", t) = Return(TRUE)
              /\ getBinding("P", t).v.resolveFunction = last.r.v.by

\* a get through the token of A returned an instance of B, bound last
\* through the token of B with the description 'A'
C25_Witness ==
    /\ last.op = "get"
    /\ last.args = <<TokA>>
    /\ last.r.ok
    /\ last.r.v.class = "B"
    /\ last.r.v.by = GeneratedFunc(ClsB, <<>>)

\* C26: when every binding was made through a token, has is false for the
\* class, the string and every symbol and a get of each fails as
\* unresolved; when every binding was made through a plain identifier, has
\* is false for every token.
C26_TokenKeyApart ==
    /\ OnlyBound(TokenFuncs)
       => \A i \in PlainIds :
              /\ has("P", i) = Return(FALSE)
              /\ get(State, "P", <<i>>, 0).r
                    = UnresolvedBindingError(resolveKey(i).v)
    /\ NoneBound(TokenFuncs)
       => \A t \in SameDescription : has("P", t) = Return(FALSE)

\* with only the token of A bound, get(A) failed as unresolved
C26_Witness ==
    /\ OnlyBound({GeneratedFunc(ClsA, <<>>)})
    /\ last.op = "get"
    /\ last.args = <<ClsA>>
    /\ last.r = UnresolvedBindingError(StrKey("A"))

\* C27: identifiers that are not tokens and have the same derived name
\* (the class A, another class named A, the string 'A') address one
\* binding: after a bind through one of them every one of them reports the
\* function just bound, and what a get through one of them returned, a get
\* through any of them returns (every binding here is a singleton).
C27_SameNameSharesKey ==
    /\ (last.op = "bind" /\ last.injectable \in SameName /\ last.r.ok)
       => \A j \in SameName :
              /\ has("P", j) = Return(TRUE)
              /\ getBinding("P", j).v.resolveFunction = last.dep
    /\ (last.op = "get" /\ last.args[1] \in SameName /\ last.r.ok)
       => \A j \in SameName : get(State, "P", <<j>>, 0).r = last.r

\* a get through the string 'A' returned the cached instance that the
\* function bound through the second class A made at an earlier get
C27_Witness ==
    /\ last.op = "get"
    /\ last.args = <<StrA>>
    /\ last.r.ok
    /\ last.r.v.by = Fn("a2", ClsA2, <<>>)
    /\ last.r.v.id < last.idBefore
    /\ last.prev # None
    /\ last.prev.v = last.r.v

\* C28: a symbol is its own key: when the only binding was made through
\* Symbol('B'), has is false for another Symbol('B'), for the string
\* 'Symbol(B)' and for every other symbol.
C28_SymbolOwnsItsSlot ==
    OnlyBound(SymbolFuncs)
    => \A i \in (Symbols \ {SymB}) \cup {StrSymB} : has("P", i) = Return(FALSE)

\* ------------------------------------------------------- falsy identifiers
\* One container where A is bound and got, and every operation is called
\* with null, undefined and the empty string: get with and without a
\* fallback and with no argument at all, has, getBinding, and bind with a
\* function, an array, an empty array and no dependencies
FalsyIds == {NullId, UndefinedId, StrEmpty}
FalsyDeps == {Fn("fx", ClsA, <<>>), Array(<<ClsA>>), Array(<<>>), Omitted}

NextFalsy ==
    \/ \E opts \in {NoOpts, Opts("false", "omitted")} :
           Bind("P", ClsA, Fn("fa", ClsA, <<>>), opts)
    \/ Get("P", <<ClsA>>)
    \/ Get("P", <<>>)
    \/ \E i \in FalsyIds, a \in {<<>>, <<Fallback>>} : Get("P", <<i>> \o a)
    \/ \E i \in FalsyIds : Has("P", i)
    \/ \E i \in FalsyIds : GetBinding("P", i)
    \/ \E i \in FalsyIds, dep \in FalsyDeps : Bind("P", i, dep, NoOpts)

InitFalsy == InitWatching({Watch("P", resolveKey(ClsA).v)})

SpecFalsy == InitFalsy /\ [][NextFalsy]_vars

\* the error resolveKey throws for a falsy identifier
KeyResolutionError(injectable) ==
    Throw("Error", "Could not resolve injectable name from \""
                   \o injectable.name \o "\"")

\* the identifier the call recorded in c was made with
IdentifierOf(c) ==
    IF c.op \in {"get", "resolver.get"}
    THEN IF Len(c.args) > 0 THEN c.args[1] ELSE UndefinedId
    ELSE c.injectable

\* the call recorded in c was made with null, undefined or ''
CalledWithFalsy(c) ==
    /\ c.op \in {"get", "has", "getBinding", "bind"}
    /\ Falsy(IdentifierOf(c))

\* C29 as stated: get, has, getBinding and bind called with null,
\* undefined or '' each fail with the key-resolution error.
C29_FalsyFailsOnKey ==
    CalledWithFalsy(last) => last.r = KeyResolutionError(IdentifierOf(last))

\* C29: get (with or without a fallback), has, getBinding, and bind with a
\* construction function, called with null, undefined or '', fail with the
\* key-resolution error; bind with an array of dependencies or with none
\* fails with the array error instead; every such call leaves the Binding
\* Table and the Instance Cache unchanged and constructs nothing.
C29_FalsyIdentifierRejected ==
    [][CalledWithFalsy(last')
       => /\ last'.r = IF /\ last'.op = "bind"
                          /\ last'.dep.kind \in {"omitted", "array"}
                       THEN ArrayError
                       ELSE KeyResolutionError(IdentifierOf(last'))
          /\ bindings' = bindings
          /\ container' = container
          /\ nextId' = nextId
          /\ proxies' = proxies]_vars

\* get(null, fallback) failed with the key-resolution error in a state
\* where A is bound and cached
C29_Witness ==
    /\ last.op = "get"
    /\ last.args = <<NullId, Fallback>>
    /\ last.r = KeyResolutionError(NullId)
    /\ bindings["P"][resolveKey(ClsA).v] # NoBinding
    /\ container["P"][resolveKey(ClsA).v] # NoEntry

\* ------------------------------------------------------------------- clear
\* Parent P with the sub-modules S1 and S2, and N below S1: P and N bind
\* A, S1 binds B, S2 binds C and N also binds the token of A; P and S1 are
\* cleared
ClearBinds ==
    {<<"P", ClsA, Fn("P", ClsA, <<>>)>>, <<"S1", ClsB, Fn("S1", ClsB, <<>>)>>,
     <<"S2", ClsC, Omitted>>, <<"N", ClsA, Fn("N", ClsA, <<>>)>>,
     <<"N", TokA, Omitted>>}
ClearAttach == {<<"P", <<"S1", "S2">>>>, <<"P", <<"S1">>>>, <<"S1", <<"N">>>>}
ClearIds == {ClsA, ClsB, ClsC, TokA}

NextClear ==
    \/ \E b \in ClearBinds : Bind(b[1], b[2], b[3], NoOpts)
    \/ \E a \in ClearAttach : SubModule(a[1], a[2])
    \/ \E di \in {"P", "S1", "N"} : Get(di, <<ClsA>>)
    \/ \E di \in {"P", "S1"} : Clear(di)

InitClear == InitWatching({Watch("N", resolveKey(ClsA).v)})

SpecClear == InitClear /\ [][NextClear]_vars

\* C30: right after clear() on a container, on that container and on
\* every sub-module reachable from it, has is false and get without a
\* fallback throws, for every identifier: none that was bound in any of
\* them is left.
C30_ClearUnbindsReachable ==
    last.op = "clear"
    => \A n \in 1..Len(Preorder(last.di)), i \in ClearIds :
           LET d == Preorder(last.di)[n] IN
           /\ has(d, i) = Return(FALSE)
           /\ ~get(State, d, <<i>>, 0).r.ok

\* P was cleared with N reachable from it through S1, after a get of A on
\* N had returned the instance N's binding made
C30_Witness ==
    /\ last.op = "clear"
    /\ last.di = "P"
    /\ subModules["S1"] = <<"N">>
    /\ subModules["P"] = <<"S1", "S2">>
    /\ got # None
    /\ got.v.by = Fn("N", ClsA, <<>>)
    /\ got.stale

\* ------------------------------------------------------- clear and the cache
\* C31: right after clear() the Instance Cache of the container and of
\* every sub-module reachable from it holds no entry, instance or proxy;
\* and the first get of a key that returns after its container was cleared,
\* the key bound again as a singleton, returns an instance or proxy made by
\* this get with the function now bound, never the value returned before
\* the clear.
C31_ClearEmptiesCache ==
    /\ last.op = "clear"
       => \A n \in 1..Len(Preorder(last.di)), k \in Keys :
              container[Preorder(last.di)[n]][k] = NoEntry
    /\ (/\ last.op = "get"
        /\ LastGetReturned
        /\ HasLocal(last.di, LastKey)
        /\ bindings[last.di][LastKey].isSingleton
        /\ last.prev # None
        /\ last.prev.cleared)
       => /\ last.r.v # last.prev.v
          /\ last.r.v.t \in {"object", "proxy"}
          /\ last.r.v.id >= last.idBefore
          /\ ProducedBy(last.r.v) = bindings[last.di][LastKey].func
          /\ container[last.di][LastKey] = last.r.v

\* a get returned a new proxy of A, bound again as a late-resolved
\* singleton after the clear that dropped the proxy the previous get cached
C31_Witness ==
    /\ last.op = "get"
    /\ last.args = <<ClsA>>
    /\ last.r.ok
    /\ last.r.v.t = "proxy"
    /\ last.prev # None
    /\ last.prev.cleared
    /\ last.prev.v.t = "proxy"
    /\ last.prev.v.id < last.r.v.id

\* N, the watched container, was cleared since the last get of A on it
\* returned, which clear() on P or S1 does only by reaching N through the
\* link from S1, and A was bound in N after that
BoundBelowAfterClear ==
    /\ got # None
    /\ got.cleared
    /\ HasLocal("N", resolveKey(ClsA).v)
    /\ ~HasLocal("S1", resolveKey(ClsA).v)

C33_SubModuleReturnsThis ==
    [][last'.op = "subModule"
       => /\ last'.r = Return(This(last'.di))
          /\ subModules' = [subModules EXCEPT
                               ![last'.di] = @ \o last'.modules]
          /\ bindings' = bindings
          /\ container' = container]_vars

\* ------------------------------------------- throwing construction functions
\* the binding the call recorded in c was made for, there being one in the
\* container the call was made on
LocalBinding(c) == bindings[c.di][resolveKey(c.args[1]).v]

\* the call recorded in c is a get of a key bound in the container as a
\* singleton, late-resolved or not
SingletonGet(c, late) ==
    /\ c.op = "get"
    /\ resolveKey(c.args[1]).ok
    /\ HasLocal(c.di, resolveKey(c.args[1]).v)
    /\ LocalBinding(c).isSingleton
    /\ LocalBinding(c).lateResolve = late

\* C34 as stated: when the construction function of a singleton binding
\* throws, at a get or at the access that forces its proxy, the Instance
\* Cache holds no entry for the key afterwards.
C34_ThrowLeavesNoEntry ==
    /\ (SingletonGet(last, FALSE) /\ ~last.r.ok)
       => container[last.di][LastKey] = NoEntry
    /\ (last.op = "access" /\ ~last.r.ok)
       => \A k \in Keys :
              container["P"][k] # [t |-> "proxy", id |-> last.id]

\* C34: a get of a singleton binding that is not late-resolved, made when
\* the Instance Cache has no entry for the key, runs the construction
\* function: when that throws (here for a dependency that has no binding)
\* the error reaches the caller and the cache still has no entry, and when
\* it returns, the instance is a new one.  A get of a late-resolved
\* singleton does not run the function: it returns and caches a proxy; the
\* error reaches the caller of the access that forces the proxy, which
\* memoizes nothing, while the proxy stays cached for the key.
C34_ThrowKeepsCacheAsItWas ==
    /\ []((/\ SingletonGet(last, FALSE)
           /\ last.args = <<ClsA>>
           /\ LocalBinding(last).func.deps = <<ClsB>>
           /\ ~HasLocal("P", resolveKey(ClsB).v))
          => /\ last.r = UnresolvedBindingError(resolveKey(ClsB).v)
             /\ container["P"][resolveKey(ClsA).v] = NoEntry)
    /\ []((SingletonGet(last, FALSE) /\ ~last.r.ok)
          => container[last.di][LastKey] = NoEntry)
    /\ [][(/\ SingletonGet(last', FALSE)
           /\ container[last'.di][resolveKey(last'.args[1]).v] = NoEntry
           /\ last'.r.ok)
          => /\ last'.r.v.t = "object"
             /\ last'.r.v.id >= nextId
             /\ last'.r.v.by = LocalBinding(last').func]_vars
    /\ [][(/\ SingletonGet(last', TRUE)
           /\ container[last'.di][resolveKey(last'.args[1]).v] = NoEntry)
          => /\ last'.r = Return([t |-> "proxy", id |-> nextId])
             /\ container'[last'.di][resolveKey(last'.args[1]).v] = last'.r.v
             /\ nextId' = nextId + 1]_vars
    /\ []((last.op = "access" /\ ~last.r.ok)
          => ~proxies[last.id].hasInstance)

\* get(A) threw for the unbound B that A is built from, A being a
\* singleton that is not late-resolved, and nothing is cached for A
C34_Witness ==
    /\ SingletonGet(last, FALSE)
    /\ last.args = <<ClsA>>
    /\ last.r = UnresolvedBindingError(resolveKey(ClsB).v)
    /\ container["P"][resolveKey(ClsA).v] = NoEntry

\* --------------------------------------------------- bind without a spec
\* One container where the class A, the token of A and the string 'X' are
\* bound with the dependencies omitted or with the empty array, under
\* every combination of options, and looked up
OmittedIds == {ClsA, TokA, StrX}
OmittedDeps == {Omitted, Array(<<>>)}

NextOmitted ==
    \/ \E i \in OmittedIds, dep \in OmittedDeps, opts \in AllOpts :
           Bind("P", i, dep, opts)
    \/ \E i \in OmittedIds : Get("P", <<i>>)
    \/ \E i \in OmittedIds : GetBinding("P", i)

InitOmitted == InitWatching({Watch("P", resolveKey(ClsA).v)})

SpecOmitted == InitOmitted /\ [][NextOmitted]_vars

\* C35: a bind with the dependencies omitted gives the outcome and leaves
\* the Binding Table and Instance Cache that the same bind with the empty
\* array gives, for every identifier and every options: for a constructable
\* one, a binding to the construction with no arguments, never
\* late-resolved, and the key's cache entry dropped; all later calls start
\* from the same state.
C35_OmittedIsEmptyArray ==
    [][(last'.op = "bind" /\ last'.dep = Omitted)
       => /\ last'.r = BindCall(last'.di, last'.injectable, Array(<<>>),
                                last'.opts).r
          /\ last'.r.ok
             => /\ bindings'
                     = [bindings EXCEPT
                          ![last'.di][resolveKey(last'.injectable).v] =
                              BindCall(last'.di, last'.injectable,
                                       Array(<<>>), last'.opts).binding]
                /\ bindings'[last'.di][resolveKey(last'.injectable).v].func.deps
                     = <<>>
                /\ ~bindings'[last'.di][resolveKey(last'.injectable).v].lateResolve
                /\ container'
                     = [container EXCEPT
                          ![last'.di][resolveKey(last'.injectable).v] = NoEntry]
          /\ ~last'.r.ok => (bindings' = bindings /\ container' = container)
          /\ nextId' = nextId
          /\ proxies' = proxies
          /\ subModules' = subModules]_vars

\* bind(A) with the dependencies omitted and {isSingleton: false,
\* lateResolve: true} stored the construction of A with no arguments,
\* not late-resolved
C35_Witness ==
    /\ last.op = "bind"
    /\ last.injectable = ClsA
    /\ last.dep = Omitted
    /\ last.opts = Opts("false", "true")
    /\ last.r.ok
    /\ bindings["P"][resolveKey(ClsA).v]
          = [func |-> GeneratedFunc(ClsA, <<>>), isSingleton |-> FALSE,
             lateResolve |-> FALSE]

\* ------------------------------------------------ late and not a singleton
\* the call recorded in c is a get, direct or through a handle, of a key
\* bound in the container with isSingleton false and lateResolve true
NonSingletonLateGet(c) ==
    /\ c.op \in {"get", "resolver.get"}
    /\ HasLocal(c.di, resolveKey(c.args[1]).v)
    /\ ~LocalBinding(c).isSingleton
    /\ LocalBinding(c).lateResolve

\* C36: a get of a key bound with isSingleton false and lateResolve true
\* runs the construction function at once and returns the instance it
\* made, a new one at every get; it builds no proxy and leaves the
\* Instance Cache as it was, with no entry for the key.
C36_NoProxyForNonSingleton ==
    [][NonSingletonLateGet(last')
       => /\ last'.r.ok
          /\ last'.r.v.t = "object"
          /\ last'.r.v.id = nextId
          /\ last'.r.v.by = LocalBinding(last').func
          /\ nextId' = nextId + 1
          /\ proxies' = proxies
          /\ container' = container
          /\ container'[last'.di][resolveKey(last'.args[1]).v] = NoEntry]_vars

\* the second get in a row of A, bound with isSingleton false and
\* lateResolve true, returned a new instance
C36_Witness ==
    /\ last.op = "get"
    /\ NonSingletonLateGet(last)
    /\ last.r.ok
    /\ last.r.v.t = "object"
    /\ last.prev # None
    /\ ~last.prev.stale
    /\ last.prev.v.t = "object"
    /\ last.prev.v.id < last.r.v.id
    /\ container["P"][resolveKey(ClsA).v] = NoEntry

\* ------------------------------------------------------------ eager cycles
\* A and B are singletons, not late-resolved, A built from B and B from A
MutualEager ==
    LET a == bindings["P"][resolveKey(ClsA).v]
        b == bindings["P"][resolveKey(ClsB).v]
    IN  /\ a # NoBinding
        /\ b # NoBinding
        /\ a.func.deps = <<ClsB>>
        /\ b.func.deps = <<ClsA>>
        /\ a.isSingleton /\ ~a.lateResolve
        /\ b.isSingleton /\ ~b.lateResolve

\* the exhaustion of the call stack
StackExhausted == Throw("RangeError", "Maximum call stack size exceeded")

\* nothing is cached for A or B
NeitherCached ==
    /\ container["P"][resolveKey(ClsA).v] = NoEntry
    /\ container["P"][resolveKey(ClsB).v] = NoEntry

\* C37 as stated: while A and B resolve each other eagerly no get of A or
\* B returns normally and nothing is cached for A or B.
C37_EagerCycleNeverReturns ==
    (MutualEager /\ last.op = "get")
    => /\ last.r = StackExhausted
       /\ NeitherCached

\* C37: while A and B resolve each other eagerly, a get of A or B made
\* when nothing is cached for either does not return normally: it ends
\* with the exhaustion of the call stack, not with an unresolved-binding
\* error, and writes no Instance Cache entry and constructs nothing.
C37_EagerCycleExhaustsStack ==
    [][(MutualEager /\ NeitherCached /\ last'.op = "get")
       => /\ last'.r = StackExhausted
          /\ container' = container
          /\ nextId' = nextId
          /\ proxies' = proxies]_vars

\* get(A) ended with the exhaustion of the call stack, A and B resolving
\* each other eagerly and nothing cached
C37_Witness ==
    /\ MutualEager
    /\ NeitherCached
    /\ last.op = "get"
    /\ last.args = <<ClsA>>
    /\ last.r = StackExhausted

\* ------------------------------------------------- what the cache may hold
\* C38: in every container each key present in the Instance Cache has a
\* local binding that is a singleton: nothing is cached for an unbound
\* key, for a non-singleton binding or for a key a sub-module resolved.
C38_CacheOnlyLocalSingletons ==
    \A di \in DIs, key \in Keys :
        container[di][key] # NoEntry
        => /\ bindings[di][key] # NoBinding
           /\ bindings[di][key].isSingleton

\* the parent resolved A through its sub-module: the sub-module caches the
\* instance the parent got and the parent, which binds nothing, caches
\* nothing
C38_Witness ==
    /\ last.op = "get"
    /\ last.di = "P"
    /\ last.r.ok
    /\ bindings["P"][resolveKey(ClsA).v] = NoBinding
    /\ container["P"][resolveKey(ClsA).v] = NoEntry
    /\ container["S1"][resolveKey(ClsA).v] = last.r.v

\* ---------------------------------------------------- what bind changes
\* the call recorded in c was a bind of the key in the container
BindOf(c, di, key) ==
    /\ c.op = "bind"
    /\ c.r.ok
    /\ c.di = di
    /\ resolveKey(c.injectable).v = key

\* C39: a bind of k on a container changes only k's binding and k's cache
\* entry in that container: every other binding and cached instance of the
\* container, the sub-module lists and all state of every other container
\* are unchanged, so an instance cached for another key that was built
\* from k's old instance is kept as it was.
C39_BindChangesOnlyItsKey ==
    [][last'.op = "bind"
       => /\ \A di \in DIs, key \in Keys :
                ~BindOf(last', di, key)
                => /\ bindings'[di][key] = bindings[di][key]
                   /\ container'[di][key] = container[di][key]
          /\ subModules' = subModules
          /\ nextId' = nextId
          /\ proxies' = proxies]_vars

\* the sub-module S1 of P re-bound B after it cached A and B: B's entry is
\* gone and the cached A still holds the B it was built from
C39_Witness ==
    LET a == container["S1"][resolveKey(ClsA).v]
    IN  /\ BindOf(last, "S1", resolveKey(ClsB).v)
        /\ subModules["P"] # <<>>
        /\ container["S1"][resolveKey(ClsB).v] = NoEntry
        /\ a # NoEntry
        /\ a.t = "object"
        /\ Len(a.args) = 1
        /\ a.args[1].t = "object"
        /\ a.args[1].class = "B"

\* ------------------------------------------------- what the reads change
\* Parent P with the sub-module S1: S1 builds A from B and binds B, P
\* binds C
FrameBinds ==
    {<<"S1", ClsA, Array(<<ClsB>>), opts>> :
        opts \in {NoOpts, Opts("false", "omitted"), Opts("omitted", "true")}}
    \cup {<<"S1", ClsB, Fn("S1", ClsB, <<>>), NoOpts>>,
          <<"P", ClsC, Fn("P", ClsC, <<>>), NoOpts>>}
FrameGetAlls == {<<ClsA, ClsC>>, <<ClsC, ClsB>>}

NextFrame ==
    \/ \E b \in FrameBinds : Bind(b[1], b[2], b[3], b[4])
    \/ SubModule("P", <<"S1">>)
    \/ \E di \in {"P", "S1"}, id \in {ClsA, ClsC} : Get(di, <<id>>)
    \/ \E ids \in FrameGetAlls : GetAll("P", ids)
    \/ \E di \in {"P", "S1"}, id \in {ClsA, ClsC} : Has(di, id)
    \/ \E di \in {"P", "S1"}, id \in {ClsA, ClsC} : GetBinding(di, id)

InitFrame == InitWatching({Watch("P", resolveKey(ClsA).v)})

SpecFrame == InitFrame /\ [][NextFrame]_vars

\* the containers searched from di, di first
Below(di) == {Preorder(di)[i] : i \in 1..Len(Preorder(di))}

\* C40: has and getBinding construct nothing and change no binding, no
\* cached instance and no sub-module list of any container; get and
\* getAll change no binding and no sub-module list, and the only change
\* they make to a cache is a new entry for a key in a container, searched
\* from the one called, that binds the key itself.
C40_ReadsChangeNoBinding ==
    [][/\ last'.op \in {"has", "getBinding"}
          => /\ bindings' = bindings
             /\ container' = container
             /\ subModules' = subModules
             /\ nextId' = nextId
             /\ proxies' = proxies
       /\ last'.op \in {"get", "getAll"}
          => /\ bindings' = bindings
             /\ subModules' = subModules
             /\ \A di \in DIs, key \in Keys :
                    container'[di][key] # container[di][key]
                    => /\ container[di][key] = NoEntry
                       /\ di \in Below(last'.di)
                       /\ bindings[di][key] # NoBinding]_vars

\* has found A through the sub-module while nothing was constructed or
\* cached yet
HasFoundUnbuilt ==
    /\ last.op = "has"
    /\ last.di = "P"
    /\ last.injectable = ClsA
    /\ last.r = Return(TRUE)
    /\ nextId = 1
    /\ \A di \in DIs, key \in Keys : container[di][key] = NoEntry

\* getAll(A, C) on P built A and B in the sub-module and C in P: each is
\* cached in the container that binds it
GetAllCachedInOwners ==
    /\ last.op = "getAll"
    /\ last.di = "P"
    /\ last.r.ok
    /\ last.idBefore = 1
    /\ nextId = 4
    /\ container["S1"][resolveKey(ClsA).v] # NoEntry
    /\ container["S1"][resolveKey(ClsB).v] # NoEntry
    /\ container["P"][resolveKey(ClsC).v] # NoEntry
    /\ container["P"][resolveKey(ClsA).v] = NoEntry
    /\ container["S1"][resolveKey(ClsC).v] = NoEntry

\* a getAll acted and cached in both containers
C40_Witness == GetAllCachedInOwners

====
